---- MODULE Spec2Model ----
(***************************************************************************)
(* A model of the ZeroRepo pipeline (jasonkneen/zerorepo, src/backend).    *)
(*                                                                         *)
(*   SpecC     Stage C, CodeGenerator.generate_repository: the traversal   *)
(*             of the class/function nodes in topological order and the    *)
(*             test-driven repair loop of each node.                       *)
(*   SpecTopo  RPGGraphOps.topological_sort as a pure function over a      *)
(*             bounded family of RPGs.                                     *)
(*   SpecA     Stage A, ProposalController.build_capability_graph: the     *)
(*             iterations of feature selection, the acceptance filter and  *)
(*             the capability graph built from the accepted features.      *)
(*                                                                         *)
(* The LLM gateway, the sandbox and the file system are the environment:   *)
(* what they return is chosen with \E from the outcomes their code can     *)
(* produce.  LLMClient.generate never raises (llm_client.py:99-107 turns   *)
(* every failure into content ""); the handlers of a raising gateway in    *)
(* generator.py are modelled all the same, because the gateway is an       *)
(* injected dependency of CodeGenerator.                                   *)
(***************************************************************************)
EXTENDS Integers, Sequences, FiniteSets, TLC

\* ------------------------------------------------------------------ bounds
\* The largest max_retries a run is configured with (models.py:165 sets the
\* default of 8; the repair loop behaves alike for every value above 2).
MaxRetries == 2
\* The most edges of an RPG that topological_sort is applied to in SpecTopo.
MaxTopoEdges == 2
\* The largest max_iterations a proposal run is configured with (models.py:164
\* sets the default of 30).
MaxIterations == 3

\* what RPG.get_node returns for an id no node has
None == [id |-> "None", kind |-> "None", path_hint |-> <<>>]

\* ------------------------------------------------------------- state
VARIABLES
    \* inputs of generate_repository
    rpg,              \* the RPG handed to Stage C: [nodes: Seq, edges: Seq]
    max_retries,      \* ProjectConfig.max_retries
    \* position and locals of generate_repository / _generate_node_code
    pc,
    topo_order,       \* the list topological_sort returned
    idx,              \* position of the for loop in topo_order
    node,             \* id of the node _generate_node_code works on
    test_code,
    impl_code,
    attempt,
    \* the output directory: file path -> content
    disk,
    \* CodeGenerator fields and the locals that make the result
    generated_files,
    failed_files,
    generation_stats,
    result,
    \* history (not read by the program)
    started,          \* nodes whose test synthesis has been requested
    impl_written,     \* nodes whose implementation file has been written
    ok_run,           \* nodes for which run_tests returned success
    sandbox_runs,     \* number of run_tests calls made for `node`
    offered,          \* number of implementations the LLM returned for `node`
    first_good,       \* index of the first of them that passes (0: none yet)
    outcome,          \* node -> "none", or how _generate_node_code ended for it
    \* Stage A, ProposalController (proposal.py)
    max_iterations,   \* ProjectConfig.max_iterations
    pcA,              \* position in build_capability_graph
    selected_features,
    rejected_features,
    all_feature_paths,
    iteration,
    capability_graph, \* the RPG build_capability_graph returns
    \* history (not read by the program)
    examined,         \* the candidates of the last _accept_features call, each
                      \* with the two sets as they were when it was examined
    new_features,     \* per iteration, the paths _accept_features returned
    \* Stage B, ImplementationController (implementation.py)
    pcB,              \* position in build_implementation_graph
    folder_skeleton,  \* what _generate_folder_skeleton returned
    file_assignments, \* what _assign_features_to_files returned
    interfaces,       \* what _generate_interfaces returned: a list of
                      \* <<file path, interface code>> in insertion order
    graph,            \* the RPG Stage B has built so far
    \* history (not read by the program)
    llm_skeleton,     \* the LLM's answer to the folder-skeleton prompt
    llm_assignment,   \* the LLM's answer to the file-assignment prompt
    \* the callers of the three stages (server.py, orchestrator.py)
    entry,            \* "run_generation_job" or "run_full_pipeline"
    pcJ,              \* position in that function
    job,              \* the row of db.generation_jobs: status, progress,
                      \* result and error (None is <<>>, a value v is <<v>>)
    pipeline_result,  \* what run_full_pipeline returned (<<>> before it returns)
    \* one call of RPGGraphOps (graph_ops.py) on rpg
    pcG,              \* "ready", or the method that has returned
    query,            \* the arguments of get_neighborhood
    validation,       \* what validate_dag returned
    neighborhood,     \* what get_neighborhood returned, as a set
    \* two runs of the proposal stage, each with its own VectorStore
    \* (vector_store.py), on the same inputs
    ontology_data,    \* the ontology both stores are built from
    domain,           \* ProjectConfig.domain (None is <<>>)
    llm,              \* the LLM both runs call, a function of the prompt
    encoder,          \* the sentence encoder both stores use
    pcV,              \* run -> position of the run
    stored,           \* run -> VectorStore.feature_paths
    similar_features, \* run -> what search_features returned
    explore_features, \* run -> what sample_diverse_features returned
    proposal          \* run -> the RPG build_capability_graph returned

varsC == <<rpg, max_retries, pc, topo_order, idx, node, test_code, impl_code,
           attempt, disk, generated_files, failed_files, generation_stats,
           result, started, impl_written, ok_run, sandbox_runs, offered,
           first_good, outcome>>

varsA == <<max_iterations, pcA, selected_features, rejected_features,
           all_feature_paths, iteration, capability_graph, examined, new_features>>

varsB == <<pcB, folder_skeleton, file_assignments, interfaces, graph,
           llm_skeleton, llm_assignment>>

varsJ == <<entry, pcJ, job, pipeline_result>>

varsG == <<pcG, query, validation, neighborhood>>

varsV == <<ontology_data, domain, llm, encoder, pcV, stored,
           similar_features, explore_features, proposal>>

vars == <<varsC, varsA, varsB, varsJ, varsG, varsV>>

\* ------------------------------------------------------------- helpers
Range(s) == {s[i] : i \in DOMAIN s}

RECURSIVE Perms(_)
\* all orders in which a set can be iterated
Perms(S) ==
    IF S = {} THEN {<<>>}
    ELSE UNION {{<<x>> \o p : p \in Perms(S \ {x})} : x \in S}

RECURSIVE ConcatAll(_)
\* the concatenations of one choice per element of a sequence of sets of sequences
ConcatAll(ss) ==
    IF ss = <<>> THEN {<<>>}
    ELSE {h \o t : h \in Head(ss), t \in ConcatAll(Tail(ss))}

Max(a, b) == IF a >= b THEN a ELSE b

RECURSIVE Flatten(_)
\* the concatenation of a sequence of sequences
Flatten(ss) ==
    IF ss = <<>> THEN <<>> ELSE Head(ss) \o Flatten(Tail(ss))

\* ------------------------------------------------------------- RPG (models.py)
NodeIds == {"n1", "n2", "n3"}
Kinds == {"capability", "folder", "file", "class", "function"}
EdgeTypes == {"data_flow", "depends_on", "order"}
LeafKinds == {"function", "class"}

\* RPG.get_node, models.py:134: the first node of the list with this id, or None
get_node(g, node_id) ==
    IF \E i \in DOMAIN g.nodes : g.nodes[i].id = node_id
    THEN g.nodes[CHOOSE i \in DOMAIN g.nodes :
                    /\ g.nodes[i].id = node_id
                    /\ \A j \in DOMAIN g.nodes : g.nodes[j].id = node_id => i <= j]
    ELSE None

\* ------------------------------------------------------------- graph_ops.py
\* (mutant) the order edges are left out of the graph
build_networkx_graph_DataFlowOnly(g) ==
    LET used == {i \in DOMAIN g.edges : g.edges[i].type \in {"data_flow"}}
    IN  [nodes |-> {g.nodes[i].id : i \in DOMAIN g.nodes}
                   \cup {g.edges[i].from : i \in used} \cup {g.edges[i].to : i \in used},
         edges |-> {<<g.edges[i].from, g.edges[i].to>> : i \in used}]

\* build_networkx_graph: a DiGraph of all node ids and of the data_flow and
\* order edges only (add_edge also adds endpoints that are no node of the RPG;
\* a DiGraph keeps one edge per ordered pair).
build_networkx_graph(g) ==
    LET used == {i \in DOMAIN g.edges : g.edges[i].type \in {"data_flow", "order"}}
    IN  [nodes |-> {g.nodes[i].id : i \in DOMAIN g.nodes}
                   \cup {g.edges[i].from : i \in used} \cup {g.edges[i].to : i \in used},
         edges |-> {<<g.edges[i].from, g.edges[i].to>> : i \in used}]

\* G.subgraph(nbunch): the nodes of nbunch that are in G and the edges between them
subgraph(G, nbunch) ==
    [nodes |-> G.nodes \cap nbunch,
     edges |-> {e \in G.edges : e[1] \in nbunch /\ e[2] \in nbunch}]

RECURSIVE topological_generations(_, _, _, _)
\* networkx.topological_generations (Kahn's algorithm by generations): the
\* generations emitted, and the nodes left with a positive in-degree
topological_generations(G, indegree_map, zero_indegree, out) ==
    IF zero_indegree = {}
    THEN [generations |-> out, left |-> {v \in G.nodes : indegree_map[v] > 0}]
    ELSE LET new_map == [v \in G.nodes |->
                            indegree_map[v]
                            - Cardinality({u \in zero_indegree : <<u, v>> \in G.edges})]
             next_zero == {v \in G.nodes : indegree_map[v] > 0 /\ new_map[v] = 0}
         IN  topological_generations(G, new_map, next_zero, Append(out, zero_indegree))

in_degree(G) == [v \in G.nodes |-> Cardinality({u \in G.nodes : <<u, v>> \in G.edges})]

kahn(G) ==
    topological_generations(G, in_degree(G), {v \in G.nodes : in_degree(G)[v] = 0}, <<>>)

\* the ids of the class/function nodes, graph_ops.py:77
leaf_nodes(g) == {g.nodes[i].id : i \in {j \in DOMAIN g.nodes : g.nodes[j].kind \in LeafKinds}}

\* topological_sort raises: nx.topological_sort raises NetworkXUnfeasible on a
\* cycle, which is no NetworkXError, so the except clause of graph_ops.py:80
\* does not catch it.
topological_sort_raises(g) ==
    kahn(subgraph(build_networkx_graph(g), leaf_nodes(g))).left # {}

\* (mutant) the class/function nodes in creation order, whatever the edges
topological_sort_CreationOrder(g) ==
    LET leaves == {j \in DOMAIN g.nodes : g.nodes[j].kind \in LeafKinds}
        RECURSIVE InOrder(_)
        InOrder(i) == IF i > Len(g.nodes) THEN <<>>
                      ELSE (IF i \in leaves THEN <<g.nodes[i].id>> ELSE <<>>) \o InOrder(i + 1)
    IN  {InOrder(1)}

\* topological_sort: the lists it can return.  The order inside a generation
\* follows the iteration order of a set of strings, which differs from run to
\* run: every order of a generation is possible.
topological_sort(g) ==
    LET gens == kahn(subgraph(build_networkx_graph(g), leaf_nodes(g))).generations
    IN  ConcatAll([i \in DOMAIN gens |-> Perms(gens[i])])

\* ------------------------------------------------------------- file paths
\* A path is the sequence of its segments; the last segment is the file name.
\* os.path.splitext and the f-string "test_{name_part}.py" are tables over the
\* file names of the model.
splitext == [f \in {"x.py", "y.py"} |-> IF f = "x.py" THEN "x" ELSE "y"]
test_name == [s \in {"x", "y"} |-> IF s = "x" THEN "test_x.py" ELSE "test_y.py"]

\* the path_hints of the class/function nodes of the model: two files of one
\* folder, and a file whose path differs from the first only by the src/ prefix
PathHints == {<<"src", "core", "x.py">>, <<"src", "core", "y.py">>, <<"core", "x.py">>}

basename(p) == p[Len(p)]
dirname(p) == SubSeq(p, 1, Len(p) - 1)

\* _get_test_file_path, generator.py:360-379, for a node with a path_hint
\* (relative to output_dir): src/a/b/x.py -> tests/a/b/test_x.py
get_test_file_path(n) ==
    LET rel_path == IF Len(n.path_hint) > 1 /\ n.path_hint[1] = "src"
                    THEN Tail(n.path_hint) ELSE n.path_hint
        name_part == splitext[basename(rel_path)]
        dir_part == dirname(rel_path)
    IN  IF dir_part # <<>>
        THEN <<"tests">> \o dir_part \o <<test_name[name_part]>>
        ELSE <<"tests", test_name[name_part]>>

\* os.path.join(output_dir, node.path_hint), generator.py:157
impl_file_path(n) == n.path_hint

FilePaths == PathHints \cup {get_test_file_path([path_hint |-> p]) : p \in PathHints}

\* contents of a file: nothing, the test generated for a node, or an
\* implementation generated for a node (code: "good" passes the node's test,
\* "bad" and the empty text "" do not)
NoFile == [kind |-> "none", node |-> "-", code |-> ""]
TestFile(n) == [kind |-> "test", node |-> n, code |-> "test"]
ImplFile(n, code) == [kind |-> "impl", node |-> n, code |-> code]

\* DockerTestRunner.run_tests, docker_runtime.py:39-61: "success" of the pytest
\* run on one test file in a copy of the project.  No file: success False
\* (line 50).  Otherwise pytest exits 0 when the file holds a test and the
\* module that test imports holds an implementation that passes it.
run_tests(d, g, test_file_path) ==
    LET t == d[test_file_path]
    IN  /\ t.kind = "test"
        /\ LET m == get_node(g, t.node)
           IN  d[impl_file_path(m)] = ImplFile(t.node, "good")

\* _calculate_total_loc, generator.py:397-415: the non-empty, non-comment lines
\* of the .py files under output_dir (a generated text counts one line, the
\* empty text none)
calculate_total_loc(d) == Cardinality({p \in FilePaths : d[p].code # ""})

\* ------------------------------------------------------------- Stage C

\* (mutant) the except clause of generate_repository forgets to count the failure
Record_ExceptionNotCounted(how) ==
    LET n == get_node(rpg, node)
        success == how = "success"
    IN  /\ generation_stats' =
              IF success
              THEN [generation_stats EXCEPT !.successful = @ + 1]
              ELSE IF how = "raised" THEN generation_stats
              ELSE [generation_stats EXCEPT !.failed = @ + 1]
        /\ generated_files' = IF success THEN generated_files \cup {n.path_hint}
                              ELSE generated_files
        /\ failed_files' = IF success THEN failed_files
                           ELSE failed_files \cup {n.path_hint}
        /\ outcome' = [outcome EXCEPT ![node] = how]
        /\ idx' = idx + 1
        /\ pc' = "for_node"

\* generate_repository, generator.py:94-104: what the loop records when
\* _generate_node_code has ended, and the loop goes on with the next node.
\* how: "success" (return True, line 171), "exhausted" (the repair loop ran
\* out, line 194), "gave_up" (return False at line 144 or 154, break at line
\* 191), "raised" (an exception, caught at line 101).
Record(how) ==
    LET n == get_node(rpg, node)
        success == how = "success"
    IN  /\ generation_stats' =
              IF success
              THEN [generation_stats EXCEPT !.successful = @ + 1]
              ELSE [generation_stats EXCEPT !.failed = @ + 1]
        /\ generated_files' = IF success THEN generated_files \cup {n.path_hint}
                              ELSE generated_files
        /\ failed_files' = IF success THEN failed_files
                           ELSE failed_files \cup {n.path_hint}
        /\ outcome' = [outcome EXCEPT ![node] = how]
        /\ idx' = idx + 1
        /\ pc' = "for_node"

\* the node is still being worked on: nothing is recorded yet
Goto(label) ==
    /\ pc' = label
    /\ UNCHANGED <<generation_stats, generated_files, failed_files, outcome, idx>>

\* (mutant) _generate_node_code returns True when the repair loop has run out
LoopHead_ReturnsTrue(code, a) ==
    IF a < max_retries
    THEN \E io \in {"written", "raise"} :
            IF io = "written"
            THEN /\ disk' = [disk EXCEPT ![impl_file_path(get_node(rpg, node))] =
                                 ImplFile(node, code)]
                 /\ impl_written' = impl_written \cup {node}
                 /\ Goto("run_tests")
            ELSE /\ UNCHANGED <<disk, impl_written>>
                 /\ Record("raised")
    ELSE /\ UNCHANGED <<disk, impl_written>>
         /\ Record("success")

\* (mutant) the repair loop makes one pass too many: range(max_retries + 1)
LoopHead_OneMore(code, a) ==
    IF a < max_retries + 1
    THEN \E io \in {"written", "raise"} :
            IF io = "written"
            THEN /\ disk' = [disk EXCEPT ![impl_file_path(get_node(rpg, node))] =
                                 ImplFile(node, code)]
                 /\ impl_written' = impl_written \cup {node}
                 /\ Goto("run_tests")
            ELSE /\ UNCHANGED <<disk, impl_written>>
                 /\ Record("raised")
    ELSE /\ UNCHANGED <<disk, impl_written>>
         /\ Record("exhausted")

\* generator.py:160-167, the head of the repair loop with `impl_code` = code and
\* `attempt` = a: the loop ends (return False, line 194) or the implementation
\* is written (_write_file raises on an I/O error) and run_tests is awaited
LoopHead(code, a) ==
    IF a < max_retries
    THEN \E io \in {"written", "raise"} :
            IF io = "written"
            THEN /\ disk' = [disk EXCEPT ![impl_file_path(get_node(rpg, node))] =
                                 ImplFile(node, code)]
                 /\ impl_written' = impl_written \cup {node}
                 /\ Goto("run_tests")
            ELSE /\ UNCHANGED <<disk, impl_written>>
                 /\ Record("raised")
    ELSE /\ UNCHANGED <<disk, impl_written>>
         /\ Record("exhausted")

\* the implementations the LLM has returned for the node so far
Offer(code) ==
    /\ offered' = offered + 1
    /\ first_good' = IF code = "good" /\ first_good = 0 THEN offered + 1 ELSE first_good
\* ---- the RPGs and the configurations Stage C is run on
\* three nodes in creation order: a class and a function, which share a file
\* or not, and a third node that is a function or the file node itself
StageCNodes ==
    {<<[id |-> "n1", kind |-> "class", path_hint |-> <<"src", "core", "x.py">>],
       [id |-> "n2", kind |-> "function", path_hint |-> p2],
       [id |-> "n3", kind |-> k3, path_hint |-> <<"src", "core", "y.py">>]>> :
        p2 \in {<<"src", "core", "x.py">>, <<"src", "core", "y.py">>},
        k3 \in {"function", "file"}}

\* every edge between two nodes of the model (self loops included)
Edges == [from : NodeIds, to : NodeIds, type : EdgeTypes]

Edge(u, v, t) == [from |-> u, to |-> v, type |-> t]

\* no edge, one data_flow or order edge between any two nodes (self loops
\* included), a depends_on edge, a chain and a cycle of two edges
StageCEdges ==
    {<<>>} \cup {<<e>> : e \in {x \in Edges : x.type # "depends_on"}}
    \cup {<<Edge("n1", "n2", "depends_on")>>, <<Edge("n3", "n1", "depends_on")>>}
    \cup {<<Edge("n3", "n2", "data_flow"), Edge("n2", "n1", "order")>>,
          <<Edge("n1", "n2", "order"), Edge("n2", "n1", "data_flow")>>}

StageCGraphs == [nodes : StageCNodes, edges : StageCEdges]

NoResult == [success |-> FALSE, generated_files |-> {}, failed_files |-> {},
             test_results |-> "none", metrics |-> [total_nodes |-> 0]]

\* Stage A before build_capability_graph is called: ProposalController.__init__,
\* proposal.py:28-33
StageAIdle ==
    /\ max_iterations = 0
    /\ pcA = "idle"
    /\ selected_features = {}
    /\ rejected_features = {}
    /\ all_feature_paths = <<>>
    /\ iteration = 0
    /\ capability_graph = [nodes |-> <<>>, edges |-> <<>>, metadata |-> [total_features |-> 0]]
    /\ examined = <<>>
    /\ new_features = <<>>

\* the two runs of the proposal stage
Runs == {1, 2}

\* no VectorStore has been made
VectorStoreIdle ==
    /\ ontology_data = <<>>
    /\ domain = <<>>
    /\ llm = "-"
    /\ encoder = "-"
    /\ pcV = [r \in Runs |-> "idle"]
    /\ stored = [r \in Runs |-> <<>>]
    /\ similar_features = [r \in Runs |-> <<>>]
    /\ explore_features = [r \in Runs |-> <<>>]
    /\ proposal = [r \in Runs |-> [nodes |-> <<>>, edges |-> <<>>,
                                    metadata |-> [total_features |-> 0]]]

\* no call of RPGGraphOps has been made
GraphOpsIdle ==
    /\ pcG = "idle"
    /\ query = [node_id |-> "-", radius |-> 0]
    /\ validation = [is_valid |-> TRUE, errors |-> <<>>]
    /\ neighborhood = {}

\* no job and no pipeline run: GenerationJob's defaults, server.py:164-177
JobIdle ==
    /\ entry = "-"
    /\ pcJ = "idle"
    /\ job = [status |-> "pending", progress |-> 0, result |-> <<>>, error |-> <<>>]
    /\ pipeline_result = <<>>

\* Stage B before build_implementation_graph is called
StageBIdle ==
    /\ pcB = "idle"
    /\ folder_skeleton = [folders |-> <<>>, files |-> <<>>]
    /\ file_assignments = <<>>
    /\ interfaces = <<>>
    /\ graph = [nodes |-> <<>>, edges |-> <<>>, metadata |-> [total_features |-> 0]]
    /\ llm_skeleton = "-"
    /\ llm_assignment = "-"

\* Stage C before generate_repository is called: CodeGenerator.__init__,
\* generator.py:30-35, and an empty output directory
StageCIdle ==
    /\ pc = "start"
    /\ topo_order = <<>>
    /\ idx = 1
    /\ node = "-"
    /\ test_code = ""
    /\ impl_code = ""
    /\ attempt = 0
    /\ disk = [p \in FilePaths |-> NoFile]
    /\ generated_files = {}
    /\ failed_files = {}
    /\ generation_stats = [total_nodes |-> 0, successful |-> 0, failed |-> 0]
    /\ result = NoResult
    /\ started = {}
    /\ impl_written = {}
    /\ ok_run = {}
    /\ sandbox_runs = 0
    /\ offered = 0
    /\ first_good = 0
    /\ outcome = [n \in NodeIds |-> "none"]

InitC ==
    /\ GraphOpsIdle
    /\ VectorStoreIdle
    /\ JobIdle
    /\ StageBIdle
    /\ StageAIdle
    /\ rpg \in StageCGraphs
    /\ max_retries \in 0..MaxRetries
    /\ StageCIdle

\* generate_repository, generator.py:49-83: the topological order is computed
\* (an exception of topological_sort leaves generate_repository) and the
\* counters are set
GenerateRepositoryStart ==
    /\ UNCHANGED varsA
    /\ UNCHANGED varsB
    /\ UNCHANGED varsJ
    /\ UNCHANGED varsG
    /\ UNCHANGED varsV
    /\ pc = "start"
    /\ IF topological_sort_raises(rpg)
       THEN /\ pc' = "raised"
            /\ UNCHANGED <<topo_order, generation_stats>>
       ELSE \E order \in topological_sort(rpg) :
                /\ topo_order' = order
                /\ generation_stats' = [total_nodes |-> Len(order),
                                        successful |-> 0, failed |-> 0]
                /\ pc' = "for_node"
    /\ UNCHANGED <<rpg, max_retries, idx, node, test_code, impl_code, attempt, disk,
                   generated_files, failed_files, result, started, impl_written,
                   ok_run, sandbox_runs, offered, first_good, outcome>>

\* generator.py:85-93: the next node of the order; a node that is no
\* class/function is skipped; after the last one the metrics follow
ForNode ==
    /\ UNCHANGED varsA
    /\ UNCHANGED varsB
    /\ UNCHANGED varsJ
    /\ UNCHANGED varsG
    /\ UNCHANGED varsV
    /\ pc = "for_node"
    /\ IF idx > Len(topo_order)
       THEN /\ pc' = "run_integration_tests"
            /\ UNCHANGED <<idx, node, started, sandbox_runs, offered, first_good>>
       ELSE LET n == get_node(rpg, topo_order[idx])
            IN  IF n = None \/ n.kind \notin {"function", "class"}
                THEN /\ idx' = idx + 1
                     /\ UNCHANGED <<pc, node, started, sandbox_runs, offered, first_good>>
                ELSE /\ node' = n.id
                     /\ started' = started \cup {n.id}
                     /\ sandbox_runs' = 0
                     /\ offered' = 0
                     /\ first_good' = 0
                     /\ pc' = "generate_unit_test"
                     /\ UNCHANGED idx
    /\ test_code' = ""
    /\ impl_code' = ""
    /\ attempt' = 0
    /\ UNCHANGED <<rpg, max_retries, topo_order, disk, generated_files, failed_files,
                   generation_stats, result, impl_written, ok_run, outcome>>

\* _generate_node_code, generator.py:141-151: the LLM returns the test (an empty
\* text ends the node, line 144); the test file is written
GenerateUnitTest ==
    /\ UNCHANGED varsA
    /\ UNCHANGED varsB
    /\ UNCHANGED varsJ
    /\ UNCHANGED varsG
    /\ UNCHANGED varsV
    /\ pc = "generate_unit_test"
    /\ \E code \in {"", "test"} :
          IF code = ""
          THEN /\ Record("gave_up")
               /\ UNCHANGED <<test_code, disk>>
          ELSE \E io \in {"written", "raise"} :
                  IF io = "written"
                  THEN /\ test_code' = code
                       /\ disk' = [disk EXCEPT ![get_test_file_path(get_node(rpg, node))] =
                                       TestFile(node)]
                       /\ Goto("generate_implementation")
                  ELSE /\ Record("raised")
                       /\ UNCHANGED <<test_code, disk>>
    /\ UNCHANGED <<rpg, max_retries, topo_order, node, impl_code, attempt, result,
                   started, impl_written, ok_run, sandbox_runs, offered, first_good>>

\* generator.py:151-167: the LLM returns the first implementation (an empty
\* text ends the node, line 154) and the repair loop is entered
GenerateImplementation ==
    /\ UNCHANGED varsA
    /\ UNCHANGED varsB
    /\ UNCHANGED varsJ
    /\ UNCHANGED varsG
    /\ UNCHANGED varsV
    /\ pc = "generate_implementation"
    /\ \E code \in {"", "good", "bad"} :
          IF code = ""
          THEN /\ Record("gave_up")
               /\ UNCHANGED <<impl_code, disk, impl_written, offered, first_good>>
          ELSE /\ impl_code' = code
               /\ Offer(code)
               /\ LoopHead(code, 0)
    /\ UNCHANGED <<rpg, max_retries, topo_order, node, test_code, attempt, result,
                   started, ok_run, sandbox_runs>>

\* generator.py:167-178: the sandbox has run the node's test file; success ends
\* the node (return True), a failure asks the LLM for a fix
RunTests ==
    /\ UNCHANGED varsA
    /\ UNCHANGED varsB
    /\ UNCHANGED varsJ
    /\ UNCHANGED varsG
    /\ UNCHANGED varsV
    /\ pc = "run_tests"
    /\ sandbox_runs' = sandbox_runs + 1
    /\ IF run_tests(disk, rpg, get_test_file_path(get_node(rpg, node)))
       THEN /\ ok_run' = ok_run \cup {node}
            /\ Record("success")
       ELSE /\ UNCHANGED ok_run
            /\ Goto("fix")
    /\ UNCHANGED <<rpg, max_retries, topo_order, node, test_code, impl_code, attempt,
                   disk, result, started, impl_written, offered, first_good>>

\* generator.py:180-194 and the next pass of the loop, 160-167: the LLM returns
\* the fixed implementation ("bad" stands for every text that fails the test,
\* the content "" of a failed call included), or the call raises and the loop
\* is left (break, line 191)
Fix ==
    /\ UNCHANGED varsA
    /\ UNCHANGED varsB
    /\ UNCHANGED varsJ
    /\ UNCHANGED varsG
    /\ UNCHANGED varsV
    /\ pc = "fix"
    /\ \E out \in {"good", "bad", "raise"} :
          IF out = "raise"
          THEN /\ Record("gave_up")
               /\ UNCHANGED <<impl_code, attempt, disk, impl_written, offered, first_good>>
          ELSE /\ impl_code' = out
               /\ attempt' = attempt + 1
               /\ Offer(out)
               /\ LoopHead(out, attempt + 1)
    /\ UNCHANGED <<rpg, max_retries, topo_order, node, test_code, result, started,
                   ok_run, sandbox_runs>>

\* generator.py:106-123: the metrics, the integration run (_run_integration_tests
\* reports passed, failed or error) and the result object
RunIntegrationTests ==
    /\ UNCHANGED varsA
    /\ UNCHANGED varsB
    /\ UNCHANGED varsJ
    /\ UNCHANGED varsG
    /\ UNCHANGED varsV
    /\ pc = "run_integration_tests"
    /\ \E integration_tests \in {"passed", "failed", "error"} :
          result' = [success |-> generation_stats.failed = 0,
                     generated_files |-> generated_files,
                     failed_files |-> failed_files,
                     test_results |-> integration_tests,
                     metrics |-> [total_nodes |-> generation_stats.total_nodes,
                                  successful |-> generation_stats.successful,
                                  failed |-> generation_stats.failed,
                                  total_loc |-> calculate_total_loc(disk),
                                  success_rate |->
                                      (100 * generation_stats.successful)
                                      \div Max(generation_stats.total_nodes, 1)]]
    /\ pc' = "done"
    /\ UNCHANGED <<rpg, max_retries, topo_order, idx, node, test_code, impl_code,
                   attempt, disk, generated_files, failed_files, generation_stats,
                   started, impl_written, ok_run, sandbox_runs, offered, first_good,
                   outcome>>

NextC ==
    \/ GenerateRepositoryStart
    \/ ForNode
    \/ GenerateUnitTest
    \/ GenerateImplementation
    \/ RunTests
    \/ Fix
    \/ RunIntegrationTests

SpecC == InitC /\ [][NextC]_vars

\* ------------------------------------------------------------- SpecTopo
\* topological_sort on its own, over every RPG of three nodes (each a
\* class/function or a file) with at most MaxTopoEdges edges of any type
\* between any two of them, duplicates and self loops included
TopoNodes ==
    {<<[id |-> "n1", kind |-> k1, path_hint |-> <<"src", "core", "x.py">>],
       [id |-> "n2", kind |-> k2, path_hint |-> <<"src", "core", "x.py">>],
       [id |-> "n3", kind |-> k3, path_hint |-> <<"src", "core", "y.py">>]>> :
        k1 \in {"class", "function", "file"}, k2 \in {"function", "file"},
        k3 \in {"class", "file"}}

TopoGraphs == [nodes : TopoNodes, edges : UNION {[1..k -> Edges] : k \in 0..MaxTopoEdges}]

InitTopo ==
    /\ GraphOpsIdle
    /\ VectorStoreIdle
    /\ JobIdle
    /\ StageBIdle
    /\ StageAIdle
    /\ rpg \in TopoGraphs
    /\ max_retries = 0
    /\ StageCIdle

\* graph_ops.py:68-82, one call
TopologicalSort ==
    /\ UNCHANGED varsA
    /\ UNCHANGED varsB
    /\ UNCHANGED varsJ
    /\ UNCHANGED varsG
    /\ UNCHANGED varsV
    /\ pc = "start"
    /\ IF topological_sort_raises(rpg)
       THEN /\ pc' = "raised"
            /\ UNCHANGED topo_order
       ELSE \E order \in topological_sort(rpg) :
                /\ topo_order' = order
                /\ pc' = "sorted"
    /\ UNCHANGED <<rpg, max_retries, idx, node, test_code, impl_code, attempt, disk,
                   generated_files, failed_files, generation_stats, result, started,
                   impl_written, ok_run, sandbox_runs, offered, first_good, outcome>>

NextTopo == TopologicalSort

SpecTopo == InitTopo /\ [][NextTopo]_vars

\* ------------------------------------------------------------- Stage A
\* Strings of the proposal stage are sequences of one-character strings, so
\* that str.lower, str.split and the substring test `in` are computed and
\* not assumed.

\* the letters, small and capital, in the same order
ascii_lowercase ==
    <<"a", "b", "c", "d", "e", "f", "g", "h", "i", "j", "k", "l", "m", "n", "o", "p", "q", "r", "s", "t", "u", "v", "w", "x", "y", "z">>
ascii_uppercase ==
    <<"A", "B", "C", "D", "E", "F", "G", "H", "I", "J", "K", "L", "M", "N", "O", "P", "Q", "R", "S", "T", "U", "V", "W", "X", "Y", "Z">>

\* str.lower
lower(s) ==
    [i \in DOMAIN s |->
        IF \E k \in DOMAIN ascii_uppercase : ascii_uppercase[k] = s[i]
        THEN ascii_lowercase[CHOOSE k \in DOMAIN ascii_uppercase : ascii_uppercase[k] = s[i]]
        ELSE s[i]]

\* str.upper of one character
upper(c) ==
    IF \E k \in DOMAIN ascii_lowercase : ascii_lowercase[k] = c
    THEN ascii_uppercase[CHOOSE k \in DOMAIN ascii_lowercase : ascii_lowercase[k] = c]
    ELSE c

\* str.title: a letter that follows no letter is made capital, every other
\* letter small
title(s) ==
    [i \in DOMAIN s |->
        IF i > 1 /\ s[i - 1] \in Range(ascii_lowercase) \cup Range(ascii_uppercase)
        THEN lower(<<s[i]>>)[1]
        ELSE upper(s[i])]

\* part.replace('_', ' ')
replace_underscore(s) ==
    [i \in DOMAIN s |-> IF s[i] = "_" THEN " " ELSE s[i]]

\* `pattern in path` of two strings
contains(path, pattern) ==
    \E i \in 0..(Len(path) - Len(pattern)) :
        SubSeq(path, i + 1, i + Len(pattern)) = pattern

\* path.split('/')
RECURSIVE split(_)

split(path) ==
    IF \A i \in DOMAIN path : path[i] # "/"
    THEN <<path>>
    ELSE LET k == CHOOSE i \in DOMAIN path :
                      path[i] = "/" /\ \A j \in 1..(i - 1) : path[j] # "/"
         IN  <<SubSeq(path, 1, k - 1)>> \o split(SubSeq(path, k + 1, Len(path)))

\* proposal.py:522-525
generic_patterns ==
    {<<"l", "o", "g", "g", "i", "n", "g">>,
     <<"c", "o", "n", "f", "i", "g">>,
     <<"u", "t", "i", "l", "s">>,
     <<"h", "e", "l", "p", "e", "r", "s">>,
     <<"c", "o", "m", "m", "o", "n">>,
     <<"b", "a", "s", "e">>,
     <<"a", "b", "s", "t", "r", "a", "c", "t">>,
     <<"i", "n", "t", "e", "r", "f", "a", "c", "e">>,
     <<"s", "e", "t", "u", "p">>,
     <<"i", "n", "i", "t">>}

\* _is_generic_infrastructure without path.lower()
_is_generic_infrastructure_CaseSensitive(path) ==
    \E pattern \in generic_patterns : contains(path, pattern)

\* proposal.py:520-528
_is_generic_infrastructure(path) ==
    LET path_lower == lower(path)
    IN  \E pattern \in generic_patterns : contains(path_lower, pattern)

\* _is_too_similar_to_existing with `similarity >= 0.8`
_is_too_similar_to_existing_AtLeast(new_path, selected) ==
    LET new_parts == Range(split(new_path))
    IN  \E existing_path \in selected :
            LET existing_parts == Range(split(existing_path))
                intersection   == Cardinality(new_parts \cap existing_parts)
                union          == Cardinality(new_parts \cup existing_parts)
            IN  union > 0 /\ 5 * intersection >= 4 * union

\* proposal.py:530-546; `selected` is self.selected_features.  The quotient
\* intersection / union of two small integers is above the float 0.8 exactly
\* when 5 * intersection > 4 * union (4 / 5 and 0.8 are the same float).
_is_too_similar_to_existing(new_path, selected) ==
    LET new_parts == Range(split(new_path))
    IN  \E existing_path \in selected :
            LET existing_parts == Range(split(existing_path))
                intersection   == Cardinality(new_parts \cap existing_parts)
                union          == Cardinality(new_parts \cup existing_parts)
            IN  union > 0 /\ 5 * intersection > 4 * union

\* The feature paths the LLM and the embedding store answer with:
\*   linear       ml/algorithms/reg/lin
\*   data_linear  ml/data/reg/lin
\*   reversed     lin/reg/algorithms/ml
\*   linear_l2    ml/algorithms/reg/lin/l2
\*   reinit       ml/reg/ReInit
linear ==
    <<"m", "l", "/", "a", "l", "g", "o", "r", "i", "t", "h", "m", "s", "/", "r", "e", "g", "/", "l", "i", "n">>
data_linear ==
    <<"m", "l", "/", "d", "a", "t", "a", "/", "r", "e", "g", "/", "l", "i", "n">>
reversed ==
    <<"l", "i", "n", "/", "r", "e", "g", "/", "a", "l", "g", "o", "r", "i", "t", "h", "m", "s", "/", "m", "l">>
linear_l2 ==
    <<"m", "l", "/", "a", "l", "g", "o", "r", "i", "t", "h", "m", "s", "/", "r", "e", "g", "/", "l", "i", "n", "/", "l", "2">>
reinit ==
    <<"m", "l", "/", "r", "e", "g", "/", "R", "e", "I", "n", "i", "t">>
\*   rooted       /ml
rooted ==
    <<"/", "m", "l">>

PathUniverse == {linear, data_linear, reversed, linear_l2, reinit, rooted}

\* proposal.py:299-313
dependency_patterns ==
    <<<<<<"d", "a", "t", "a", "/", "l", "o", "a", "d", "i", "n", "g">>,
        <<"d", "a", "t", "a", "/", "p", "r", "e", "p", "r", "o", "c", "e", "s", "s", "i", "n", "g">>>>,
      <<<<"d", "a", "t", "a", "/", "p", "r", "e", "p", "r", "o", "c", "e", "s", "s", "i", "n", "g">>,
        <<"d", "a", "t", "a", "/", "v", "a", "l", "i", "d", "a", "t", "i", "o", "n">>>>,
      <<<<"m", "l", "/", "d", "a", "t", "a">>,
        <<"m", "l", "/", "a", "l", "g", "o", "r", "i", "t", "h", "m", "s">>>>,
      <<<<"m", "l", "/", "a", "l", "g", "o", "r", "i", "t", "h", "m", "s">>,
        <<"m", "l", "/", "e", "v", "a", "l", "u", "a", "t", "i", "o", "n">>>>,
      <<<<"m", "l", "/", "p", "r", "e", "p", "r", "o", "c", "e", "s", "s", "i", "n", "g">>,
        <<"m", "l", "/", "a", "l", "g", "o", "r", "i", "t", "h", "m", "s">>>>,
      <<<<"c", "o", "r", "e", "/", "b", "a", "s", "e">>,
        <<"a", "l", "g", "o", "r", "i", "t", "h", "m", "s">>>>,
      <<<<"u", "t", "i", "l", "s">>,
        <<"a", "l", "g", "o", "r", "i", "t", "h", "m", "s">>>>,
      <<<<"c", "o", "n", "f", "i", "g">>,
        <<"c", "o", "r", "e">>>>>>

\* FeaturePath, models.py:65-70; the score is in hundredths
FeaturePath(path, score, source) == [path |-> path, score |-> score, source |-> source]

\* proposal.py:107, 149, 184: the score a phase gives its paths, and
\* proposal.py:213: the minimum relevance of _accept_features
ExploitScore == 80
ExploreScore == 60
MissingScore == 50
MinRelevance == 20
\* vector_store.py:107: the least score search_features returns, which is the
\* least score lines 110-113 can give an exploit path
min_score == 10

\* What _exploit_feature_selection can return (proposal.py:76-120): nothing
\* (no path selected, or the handler of line 118), or a path with the score
\* of line 107 or with the score of a search result (lines 110-113)
ExploitAnswers ==
    {<<>>,
     <<FeaturePath(linear, ExploitScore, "exploit")>>,
     <<FeaturePath(linear, min_score, "exploit")>>,
     <<FeaturePath(data_linear, MinRelevance, "exploit")>>,
     <<FeaturePath(reinit, ExploitScore, "exploit")>>}

\* What _explore_feature_selection can return (proposal.py:122-156)
ExploreAnswers ==
    {<<>>,
     <<FeaturePath(linear, ExploreScore, "explore")>>,
     <<FeaturePath(linear_l2, ExploreScore, "explore")>>}

\* What _synthesize_missing_features can return (proposal.py:158-193)
MissingAnswers ==
    {<<>>,
     <<FeaturePath(reversed, MissingScore, "missing")>>,
     <<FeaturePath(data_linear, MissingScore, "missing")>>}

\* The two filters tabulated over the paths of the model and the values
\* self.selected_features can have
generic_infrastructure ==
    [p \in PathUniverse |-> _is_generic_infrastructure(p)]

too_similar_to_existing ==
    [p \in PathUniverse |->
        [selected \in SUBSET PathUniverse |-> _is_too_similar_to_existing(p, selected)]]

\* The body of the loop of _accept_features with the skip of line 204 left out
Examine_NoSkip(path, selected, rejected) ==
    IF generic_infrastructure[path.path] THEN "rejected"
    ELSE IF path.score < MinRelevance THEN "rejected"
    ELSE IF too_similar_to_existing[path.path][selected] THEN "rejected"
    ELSE "accepted"

\* proposal.py:203-224, the body of the loop of _accept_features: what
\* happens to one candidate, given the two sets at that moment
Examine(path, selected, rejected) ==
    IF path.path \in selected \/ path.path \in rejected THEN "skipped"
    ELSE IF generic_infrastructure[path.path] THEN "rejected"
    ELSE IF path.score < MinRelevance THEN "rejected"
    ELSE IF too_similar_to_existing[path.path][selected] THEN "rejected"
    ELSE "accepted"

\* proposal.py:195-226.  `selected` and `rejected` are self.selected_features
\* and self.rejected_features; the result holds the returned list, the two
\* sets as the call leaves them, and the log of the examinations.
RECURSIVE _accept_features(_, _, _)

_accept_features(candidate_paths, selected, rejected) ==
    IF candidate_paths = <<>>
    THEN [accepted |-> <<>>, selected |-> selected, rejected |-> rejected,
          examined |-> <<>>]
    ELSE LET path    == Head(candidate_paths)
             verdict == Examine(path, selected, rejected)
             rest    == _accept_features(
                            Tail(candidate_paths),
                            IF verdict = "accepted" THEN selected \cup {path.path}
                                                    ELSE selected,
                            IF verdict = "rejected" THEN rejected \cup {path.path}
                                                    ELSE rejected)
         IN  [accepted |-> (IF verdict = "accepted" THEN <<path>> ELSE <<>>)
                               \o rest.accepted,
              selected |-> rest.selected,
              rejected |-> rest.rejected,
              examined |-> <<[path |-> path, selected |-> selected,
                              rejected |-> rejected, verdict |-> verdict]>>
                               \o rest.examined]

\* f"cap-{len(nodes)}", proposal.py:249
cap(k) == <<"cap", k>>

\* proposal.py:243-276, the loop over the parts of one feature path.  g holds
\* nodes and edges; path_to_node is read off the nodes, each of which is
\* entered in it under its meta.feature_path (lines 256, 262); the parent
\* None of line 241 is <<>>.  A node's doc is left out.
RECURSIVE _build_capability_graph_parts(_, _, _, _, _)

_build_capability_graph_parts(g, feature_path, path_parts, current_path, parent_node_id) ==
    IF path_parts = <<>>
    THEN g
    ELSE LET part    == Head(path_parts)
             current == (IF current_path # <<>> THEN current_path \o <<"/">>
                                                ELSE current_path) \o part
             known   == {i \in DOMAIN g.nodes : g.nodes[i].meta.feature_path = current}
             node_id == cap(Len(g.nodes))
             new     == [id |-> node_id,
                         name |-> title(replace_underscore(part)),
                         kind |-> "capability", children |-> <<>>,
                         meta |-> [feature_path |-> current,
                                   source |-> feature_path.source,
                                   score |-> feature_path.score]]
             adopted == [i \in DOMAIN g.nodes |->
                            IF g.nodes[i].id = parent_node_id
                            THEN [g.nodes[i] EXCEPT !.children = Append(@, node_id)]
                            ELSE g.nodes[i]]
             g1      == IF known # {}
                        THEN g
                        ELSE IF parent_node_id = <<>>
                        THEN [nodes |-> Append(g.nodes, new), edges |-> g.edges]
                        ELSE [nodes |-> Append(adopted, new),
                              edges |-> Append(g.edges,
                                               [from |-> parent_node_id, to |-> node_id,
                                                type |-> "depends_on",
                                                note |-> "hierarchical containment"])]
             found   == IF known # {} THEN g.nodes[CHOOSE i \in known : TRUE].id
                                      ELSE node_id
         IN  _build_capability_graph_parts(g1, feature_path, Tail(path_parts),
                                           current, found)

\* proposal.py:236-276, the loop over the feature paths
RECURSIVE _build_capability_graph_paths(_, _)

_build_capability_graph_paths(g, feature_paths) ==
    IF feature_paths = <<>>
    THEN g
    ELSE _build_capability_graph_paths(
             _build_capability_graph_parts(g, Head(feature_paths),
                                           split(Head(feature_paths).path), <<>>, <<>>),
             Tail(feature_paths))

\* proposal.py:315-327 for one pattern: an edge from every node whose path
\* contains the source pattern to every other node whose path contains the
\* target pattern
pattern_edges(nodes, source_pattern, target_pattern) ==
    LET source_nodes == SelectSeq(nodes, LAMBDA n : contains(n.meta.feature_path, source_pattern))
        target_nodes == SelectSeq(nodes, LAMBDA n : contains(n.meta.feature_path, target_pattern))
        T            == Len(target_nodes)
        pairs        == [i \in 1..(Len(source_nodes) * T) |->
                            [from |-> source_nodes[((i - 1) \div T) + 1].id,
                             to   |-> target_nodes[((i - 1) % T) + 1].id,
                             type |-> "depends_on", note |-> "logical dependency"]]
    IN  SelectSeq(pairs, LAMBDA e : e.from # e.to)

\* proposal.py:293-327
_add_capability_dependencies(nodes, edges) ==
    edges \o Flatten([k \in DOMAIN dependency_patterns |->
                           pattern_edges(nodes, dependency_patterns[k][1],
                                         dependency_patterns[k][2])])

\* proposal.py:228-291
_build_capability_graph(feature_paths) ==
    LET g == _build_capability_graph_paths([nodes |-> <<>>, edges |-> <<>>], feature_paths)
    IN  [nodes    |-> g.nodes,
         edges    |-> _add_capability_dependencies(g.nodes, g.edges),
         metadata |-> [total_features |-> Len(feature_paths)]]

\* ProposalController.__init__ and the call of build_capability_graph; Stage C
\* has nothing to work on
InitA ==
    /\ GraphOpsIdle
    /\ VectorStoreIdle
    /\ JobIdle
    /\ StageBIdle
    /\ StageCIdle
    /\ rpg = [nodes |-> <<>>, edges |-> <<>>]
    /\ max_retries = 0
    /\ max_iterations \in 0..MaxIterations
    /\ pcA = "for_iteration"
    /\ selected_features = {}
    /\ rejected_features = {}
    /\ all_feature_paths = <<>>
    /\ iteration = 0
    /\ capability_graph = [nodes |-> <<>>, edges |-> <<>>, metadata |-> [total_features |-> 0]]
    /\ examined = <<>>
    /\ new_features = <<>>

\* The body of the loop of build_capability_graph without the break of
\* lines 62-64
ProposalIteration_NoBreak ==
    /\ UNCHANGED varsB
    /\ UNCHANGED varsJ
    /\ UNCHANGED varsG
    /\ UNCHANGED varsV
    /\ pcA = "for_iteration"
    /\ iteration < max_iterations
    /\ \E exploit_paths \in ExploitAnswers, explore_paths \in ExploreAnswers,
          missing_paths \in MissingAnswers :
          LET r == _accept_features(exploit_paths \o explore_paths \o missing_paths,
                                    selected_features, rejected_features)
          IN  /\ selected_features' = r.selected
              /\ rejected_features' = r.rejected
              /\ examined' = r.examined
              /\ new_features' = Append(new_features, r.accepted)
              /\ all_feature_paths' = all_feature_paths \o r.accepted
              /\ iteration' = iteration + 1
              /\ pcA' = "for_iteration"
    /\ UNCHANGED <<max_iterations, capability_graph, varsC>>

\* proposal.py:47-67, one iteration of build_capability_graph: the three
\* phases, the acceptance of their candidates in that order, and the break
\* when nothing was accepted
ProposalIteration ==
    /\ UNCHANGED varsB
    /\ UNCHANGED varsJ
    /\ UNCHANGED varsG
    /\ UNCHANGED varsV
    /\ pcA = "for_iteration"
    /\ iteration < max_iterations
    /\ \E exploit_paths \in ExploitAnswers, explore_paths \in ExploreAnswers,
          missing_paths \in MissingAnswers :
          LET r == _accept_features(exploit_paths \o explore_paths \o missing_paths,
                                    selected_features, rejected_features)
          IN  /\ selected_features' = r.selected
              /\ rejected_features' = r.rejected
              /\ examined' = r.examined
              /\ new_features' = Append(new_features, r.accepted)
              /\ IF r.accepted = <<>>
                 THEN /\ pcA' = "build"
                      /\ UNCHANGED <<all_feature_paths, iteration>>
                 ELSE /\ all_feature_paths' = all_feature_paths \o r.accepted
                      /\ iteration' = iteration + 1
                      /\ pcA' = "for_iteration"
    /\ UNCHANGED <<max_iterations, capability_graph, varsC>>

\* proposal.py:88 and 126: the calls of the embedding store are outside the
\* try blocks of the phases; an exception of the store leaves
\* build_capability_graph
VectorStoreRaises ==
    /\ UNCHANGED varsB
    /\ UNCHANGED varsJ
    /\ UNCHANGED varsG
    /\ UNCHANGED varsV
    /\ pcA = "for_iteration"
    /\ iteration < max_iterations
    /\ pcA' = "raised"
    /\ UNCHANGED <<max_iterations, selected_features, rejected_features,
                   all_feature_paths, iteration, capability_graph, examined,
                   new_features, varsC>>

\* proposal.py:69-74: after the loop, the graph is built from all_feature_paths
\* and returned with that list
BuildCapabilityGraph ==
    /\ UNCHANGED varsB
    /\ UNCHANGED varsJ
    /\ UNCHANGED varsG
    /\ UNCHANGED varsV
    /\ \/ pcA = "build"
       \/ pcA = "for_iteration" /\ iteration >= max_iterations
    /\ capability_graph' = _build_capability_graph(all_feature_paths)
    /\ pcA' = "done"
    /\ UNCHANGED <<max_iterations, selected_features, rejected_features,
                   all_feature_paths, iteration, examined, new_features, varsC>>

NextA ==
    \/ ProposalIteration
    \/ VectorStoreRaises
    \/ BuildCapabilityGraph

SpecA == InitA /\ [][NextA]_vars

\* ------------------------------------------------------------- Stage B
\* The strings of Stage B are sequences of characters as those of Stage A.

\* str(i) of an integer i >= 0
digits == <<"0", "1", "2", "3", "4", "5", "6", "7", "8", "9">>

RECURSIVE str(_)

str(i) ==
    IF i < 10 THEN <<digits[i + 1]>> ELSE str(i \div 10) \o <<digits[(i % 10) + 1]>>

\* the place of the last "/" of a path, 0 if it has none
rfind_slash(p) ==
    IF \E i \in DOMAIN p : p[i] = "/"
    THEN CHOOSE i \in DOMAIN p : p[i] = "/" /\ \A j \in (i + 1)..Len(p) : p[j] # "/"
    ELSE 0

\* os.path.basename
os_path_basename(p) == SubSeq(p, rfind_slash(p) + 1, Len(p))

RECURSIVE rstrip_slash(_)

\* head.rstrip('/') of posixpath.dirname
rstrip_slash(p) ==
    IF p # <<>> /\ p[Len(p)] = "/" THEN rstrip_slash(SubSeq(p, 1, Len(p) - 1)) ELSE p

\* os.path.dirname: the head up to the last "/", without its trailing
\* slashes unless it is made of slashes only
os_path_dirname(p) ==
    LET head == SubSeq(p, 1, rfind_slash(p))
    IN  IF head # <<>> /\ \E i \in DOMAIN head : head[i] # "/"
        THEN rstrip_slash(head)
        ELSE head

\* ids of the nodes Stage B makes: f"folder-{len(new_nodes)}",
\* f"file-{len(new_nodes)}", f"if-{len(new_nodes)}" (implementation.py:355, 383, 309)
\* (mutant) a folder gets the id of the first capability node
folder_id_OfCapability(k) == <<"cap", 0>>
folder_id(k) == <<"folder", k>>
\* every file node with the same id
file_id_Fixed(k) == <<"file", 0>>
file_id(k) == <<"file", k>>
if_id(k) == <<"if", k>>

\* the folders of _create_fallback_skeleton, implementation.py:546-549
src_core ==
    <<"s", "r", "c", "/", "c", "o", "r", "e">>
src_algorithms ==
    <<"s", "r", "c", "/", "a", "l", "g", "o", "r", "i", "t", "h", "m", "s">>
src_utils ==
    <<"s", "r", "c", "/", "u", "t", "i", "l", "s">>
tests ==
    <<"t", "e", "s", "t", "s">>

\* implementation.py:542-552
_create_fallback_skeleton(capability_nodes) ==
    [folders |-> <<[name |-> src_core, maps |-> <<<<"C", "o", "r", "e">>>>],
                   [name |-> src_algorithms, maps |-> <<<<"A", "l", "g", "o", "r", "i", "t", "h", "m", "s">>>>],
                   [name |-> src_utils, maps |-> <<<<"U", "t", "i", "l", "i", "t", "i", "e", "s">>>>],
                   [name |-> tests, maps |-> <<<<"T", "e", "s", "t", "s">>>>]>>,
     files |-> <<>>]

\* f"src/core/module_{i}.py", implementation.py:558
module_path(i) ==
    <<"s", "r", "c", "/", "c", "o", "r", "e", "/", "m", "o", "d", "u", "l", "e", "_">> \o str(i) \o <<".", "p", "y">>

\* file and folder names and a feature path the LLM answers with
src_ml ==
    <<"s", "r", "c", "/", "m", "l">>
src_ml_linear_py ==
    <<"s", "r", "c", "/", "m", "l", "/", "l", "i", "n", "e", "a", "r", ".", "p", "y">>
src_ml_data_py ==
    <<"s", "r", "c", "/", "m", "l", "/", "d", "a", "t", "a", ".", "p", "y">>
Ml ==
    <<"M", "l">>


\* LLMResponse (llm_client.py:23-29): success and content.  A content is a
\* text of the list below; the quotation marks of the JSON texts are left out.
LLMResponse(success, content) == [success |-> success, content |-> content]

\* json.loads of the texts an answer can be, without surrounding white space
\* (implementation.py:121 and 178): what it returns, or that it raises.  A
\* JSON object is a dict, a JSON array a list.
json_loads ==
    [text \in {"", "Here is the layout.", "[]",
               "{folders: [{name: src/ml, maps: [Ml]}], files: []}",
               "{folders: [{maps: [Ml]}], files: []}",
               "{src/ml/linear.py: [ml/algorithms/reg/lin]}",
               "{src/ml/linear.py: [ml/algorithms/reg/lin], src/ml/data.py: [ml/data/reg/lin]}"} |->
        CASE text = "[]" ->
                 [raises |-> FALSE, value |-> [type |-> "list", items |-> <<>>]]
          [] text = "{folders: [{name: src/ml, maps: [Ml]}], files: []}" ->
                 [raises |-> FALSE,
                  value |-> [type |-> "dict",
                             folders |-> <<[name |-> src_ml, maps |-> <<Ml>>]>>,
                             files |-> <<>>]]
          [] text = "{folders: [{maps: [Ml]}], files: []}" ->
                 [raises |-> FALSE,
                  value |-> [type |-> "dict",
                             folders |-> <<[maps |-> <<Ml>>]>>,
                             files |-> <<>>]]
          [] text = "{src/ml/linear.py: [ml/algorithms/reg/lin]}" ->
                 [raises |-> FALSE,
                  value |-> [type |-> "dict",
                             items |-> <<<<src_ml_linear_py, <<linear>>>>>>]]
          [] text = "{src/ml/linear.py: [ml/algorithms/reg/lin], src/ml/data.py: [ml/data/reg/lin]}" ->
                 [raises |-> FALSE,
                  value |-> [type |-> "dict",
                             items |-> <<<<src_ml_linear_py, <<linear>>>>,
                                         <<src_ml_data_py, <<data_linear>>>>>>]]
          [] OTHER -> [raises |-> TRUE]]

\* what the LLM can answer to the folder-skeleton prompt: a failed call, empty
\* text, text that is not JSON, a JSON array, a skeleton, and a skeleton whose
\* folder has no name
SkeletonAnswers ==
    {LLMResponse(FALSE, ""),
     LLMResponse(TRUE, ""),
     LLMResponse(TRUE, "Here is the layout."),
     LLMResponse(TRUE, "[]"),
     LLMResponse(TRUE, "{folders: [{name: src/ml, maps: [Ml]}], files: []}"),
     LLMResponse(TRUE, "{folders: [{maps: [Ml]}], files: []}")}

\* what the LLM can answer to the file-assignment prompt: a failed call, empty
\* text, a JSON array, and assignments of one and of two files
AssignmentAnswers ==
    {LLMResponse(FALSE, ""),
     LLMResponse(TRUE, ""),
     LLMResponse(TRUE, "[]"),
     LLMResponse(TRUE, "{src/ml/linear.py: [ml/algorithms/reg/lin]}"),
     LLMResponse(TRUE, "{src/ml/linear.py: [ml/algorithms/reg/lin], src/ml/data.py: [ml/data/reg/lin]}")}

\* FileSkeleton(**skeleton_data), models.py:82-86 and implementation.py:122:
\* the ** of a value that is not a mapping raises; a folder is any dict
FileSkeleton(skeleton_data) ==
    IF skeleton_data.type # "dict"
    THEN [raises |-> TRUE]
    ELSE [raises |-> FALSE,
          value |-> [folders |-> skeleton_data.folders, files |-> skeleton_data.files]]

\* implementation.py:90-127, for the answer `response` of the LLM
_generate_folder_skeleton(capability_graph_, response) ==
    LET capability_nodes == SelectSeq(capability_graph_.nodes,
                                      LAMBDA n : n.kind = "capability")
    IN  IF ~response.success
        THEN _create_fallback_skeleton(capability_nodes)
        ELSE IF json_loads[response.content].raises
        THEN _create_fallback_skeleton(capability_nodes)
        ELSE IF FileSkeleton(json_loads[response.content].value).raises
        THEN _create_fallback_skeleton(capability_nodes)
        ELSE FileSkeleton(json_loads[response.content].value).value

\* implementation.py:554-561: a dict, its items in insertion order
_create_fallback_assignment(capabilities, skeleton) ==
    [type |-> "dict",
     items |-> [i \in DOMAIN capabilities |->
                   <<module_path(i - 1), <<capabilities[i].meta.feature_path>>>>]]

\* implementation.py:152-184, for the answer `response` of the LLM.  The
\* prompt is built before the try (line 165) and reads f['name'] of every
\* folder (line 465).
_assign_features_to_files(capability_graph_, skeleton, response) ==
    LET leaf_capabilities == SelectSeq(capability_graph_.nodes,
                                 LAMBDA n : n.kind = "capability" /\ n.children = <<>>)
    IN  IF \E k \in DOMAIN skeleton.folders : "name" \notin DOMAIN skeleton.folders[k]
        THEN [raises |-> TRUE]
        ELSE IF ~response.success
        THEN [raises |-> FALSE,
              value |-> _create_fallback_assignment(leaf_capabilities, skeleton)]
        ELSE IF json_loads[response.content].raises
        THEN [raises |-> FALSE,
              value |-> _create_fallback_assignment(leaf_capabilities, skeleton)]
        ELSE [raises |-> FALSE, value |-> json_loads[response.content].value]

\* RPGEdge(type="depends_on"), as implementation.py:374, 402, 414 and 324
\* make it
depends_on(from_node, to_node, note) ==
    [from |-> from_node, to |-> to_node, type |-> "depends_on", note |-> note]

\* folder_info.get("maps", []), implementation.py:363 and 369
get_maps(folder_info) ==
    IF "maps" \in DOMAIN folder_info THEN folder_info.maps ELSE <<>>

\* implementation.py:370-379: for every name of `maps`, an edge from every
\* capability node whose lowered name contains the lowered name
folder_capability_edges(capability_graph_, mapped_capabilities, folder_id_) ==
    Flatten([m \in DOMAIN mapped_capabilities |->
        LET matching == SelectSeq(capability_graph_.nodes,
                            LAMBDA n : /\ n.kind = "capability"
                                       /\ contains(lower(n.name),
                                                   lower(mapped_capabilities[m])))
        IN  [i \in DOMAIN matching |->
                depends_on(matching[i].id, folder_id_, "capability maps to folder")]])

\* implementation.py:352-379, the loop over skeleton.folders.  `acc` holds
\* new_nodes, new_edges and the dict folder_nodes; folder_info["name"] raises
\* for a folder without a name.
RECURSIVE _create_folder_nodes(_, _, _)

_create_folder_nodes(capability_graph_, folders, acc) ==
    IF folders = <<>> \/ acc.raises
    THEN acc
    ELSE LET folder_info == Head(folders)
         IN  IF "name" \notin DOMAIN folder_info
             THEN [acc EXCEPT !.raises = TRUE]
             ELSE LET folder_path == folder_info.name
                      folder_id_  == folder_id(Len(acc.nodes))
                      new         == [id |-> folder_id_,
                                      name |-> os_path_basename(folder_path),
                                      kind |-> "folder",
                                      path_hint |-> folder_path,
                                      children |-> <<>>,
                                      meta |-> [maps |-> get_maps(folder_info)]]
                  IN  _create_folder_nodes(capability_graph_, Tail(folders),
                          [raises       |-> FALSE,
                           nodes        |-> Append(acc.nodes, new),
                           edges        |-> acc.edges \o
                                            folder_capability_edges(capability_graph_,
                                                get_maps(folder_info), folder_id_),
                           folder_nodes |-> (folder_path :> folder_id_) @@ acc.folder_nodes])

\* implementation.py:411-419: for every feature path of the file, an edge
\* from every capability node with that feature_path
file_capability_edges(capability_graph_, feature_paths, file_id_) ==
    Flatten([f \in DOMAIN feature_paths |->
        LET matching == SelectSeq(capability_graph_.nodes,
                            LAMBDA n : /\ n.kind = "capability"
                                       /\ n.meta.feature_path = feature_paths[f])
        IN  [i \in DOMAIN matching |->
                depends_on(matching[i].id, file_id_, "capability implemented in file")]])

\* implementation.py:382-419, the loop over assignments.items()
RECURSIVE _create_file_nodes_items(_, _, _)

_create_file_nodes_items(capability_graph_, items, acc) ==
    IF items = <<>>
    THEN acc
    ELSE LET file_path     == Head(items)[1]
             feature_paths == Head(items)[2]
             file_id_      == file_id(Len(acc.nodes))
             new           == [id |-> file_id_,
                               name |-> os_path_basename(file_path),
                               kind |-> "file",
                               path_hint |-> file_path,
                               children |-> <<>>,
                               meta |-> [features |-> feature_paths]]
             new_nodes     == Append(acc.nodes, new)
             folder_path   == os_path_dirname(file_path)
             in_folder     == folder_path \in DOMAIN acc.folder_nodes
             parent_folder == acc.folder_nodes[folder_path]
             parent_at     == CHOOSE k \in DOMAIN new_nodes :
                                  /\ new_nodes[k].id = parent_folder
                                  /\ \A j \in 1..(k - 1) : new_nodes[j].id # parent_folder
         IN  _create_file_nodes_items(capability_graph_, Tail(items),
                 [raises       |-> FALSE,
                  nodes        |-> IF in_folder
                                   THEN [new_nodes EXCEPT ![parent_at].children =
                                                              Append(@, file_id_)]
                                   ELSE new_nodes,
                  edges        |-> acc.edges
                                   \o (IF in_folder
                                       THEN <<depends_on(parent_folder, file_id_,
                                                         "folder containment")>>
                                       ELSE <<>>)
                                   \o file_capability_edges(capability_graph_,
                                                            feature_paths, file_id_),
                  folder_nodes |-> acc.folder_nodes])

\* implementation.py:345-425.  assignments.items() raises for a value that is
\* not a dict.
_create_file_nodes(capability_graph_, skeleton, assignments) ==
    LET folders == _create_folder_nodes(capability_graph_, skeleton.folders,
                       [raises       |-> FALSE,
                        nodes        |-> capability_graph_.nodes,
                        edges        |-> capability_graph_.edges,
                        folder_nodes |-> [p \in {} |-> p]])
    IN  IF folders.raises \/ assignments.type # "dict"
        THEN [raises |-> TRUE]
        ELSE LET files == _create_file_nodes_items(capability_graph_,
                                                   assignments.items, folders)
             IN  [raises |-> FALSE,
                  value  |-> [nodes    |-> files.nodes,
                              edges    |-> files.edges,
                              metadata |-> capability_graph_.metadata]]

\* str.strip, str.split and str.startswith of the interface parser
whitespace == {" ", "\n", "\t"}

RECURSIVE lstrip(_)

lstrip(s) ==
    IF s # <<>> /\ Head(s) \in whitespace THEN lstrip(Tail(s)) ELSE s

RECURSIVE rstrip(_)

rstrip(s) ==
    IF s # <<>> /\ s[Len(s)] \in whitespace THEN rstrip(SubSeq(s, 1, Len(s) - 1)) ELSE s

strip(s) == rstrip(lstrip(s))

startswith(s, prefix) ==
    Len(s) >= Len(prefix) /\ SubSeq(s, 1, Len(prefix)) = prefix

RECURSIVE split_sep(_, _)

\* s.split(sep) for a separator of one character
split_sep(s, sep) ==
    IF \A i \in DOMAIN s : s[i] # sep
    THEN <<s>>
    ELSE LET k == CHOOSE i \in DOMAIN s : s[i] = sep /\ \A j \in 1..(i - 1) : s[j] # sep
         IN  <<SubSeq(s, 1, k - 1)>> \o split_sep(SubSeq(s, k + 1, Len(s)), sep)

RECURSIVE split_whitespace(_)

\* s.split(): the words between runs of white space
split_whitespace(s) ==
    LET rest == lstrip(s)
    IN  IF rest = <<>>
        THEN <<>>
        ELSE IF \A i \in DOMAIN rest : rest[i] \notin whitespace
        THEN <<rest>>
        ELSE LET k == CHOOSE i \in DOMAIN rest :
                          rest[i] \in whitespace /\ \A j \in 1..(i - 1) : rest[j] \notin whitespace
             IN  <<SubSeq(rest, 1, k - 1)>> \o split_whitespace(SubSeq(rest, k, Len(rest)))

\* s.replace(':', '')
replace_colon(s) == SelectSeq(s, LAMBDA c : c # ":")

\* the interface codes the LLM answers with: a class with one method, and a
\* function
code_class ==
    <<"c", "l", "a", "s", "s", " ", "L", "i", "n", "e", "a", "r", ":", "\n", " ", " ", " ", " ", "d", "e", "f", " ", "f", "i", "t", "(", "s", "e", "l", "f", ")", ":", "\n", " ", " ", " ", " ", " ", " ", " ", " ", "p", "a", "s", "s">>
code_function ==
    <<"d", "e", "f", " ", "l", "o", "a", "d", "(", "p", "a", "t", "h", ")", ":", "\n", " ", " ", " ", " ", "p", "a", "s", "s">>

\* what the LLM can answer to the interfaces prompt of one file: a failed
\* call, empty text, and the two codes
InterfaceAnswers ==
    {LLMResponse(FALSE, <<>>), LLMResponse(TRUE, <<>>),
     LLMResponse(TRUE, code_class), LLMResponse(TRUE, code_function)}

\* implementation.py:598-622.  Every line that begins, after strip(), with
\* 'def ' or 'class ' closes the spec before it and opens one, so each such
\* line gives one spec, in the order of the lines.
_parse_interface_code(interface_code, file_path) ==
    LET lines   == split_sep(interface_code, "\n")
        opening == SelectSeq(lines,
                       LAMBDA line : \/ startswith(strip(line), <<"d", "e", "f", " ">>)
                                     \/ startswith(strip(line), <<"c", "l", "a", "s", "s", " ">>))
    IN  [i \in DOMAIN opening |->
            [name      |-> replace_colon(split_sep(split_whitespace(opening[i])[2], "(")[1]),
             kind      |-> IF startswith(strip(opening[i]), <<"c", "l", "a", "s", "s">>)
                           THEN "class" ELSE "function",
             signature |-> strip(opening[i]),
             docstring |-> "Interface specification",
             dependencies |-> <<>>]]

\* implementation.py:571-580
_get_file_capabilities(file_graph, file_node) ==
    SelectSeq(file_graph.nodes,
              LAMBDA n : /\ n.kind = "capability"
                         /\ n.meta.feature_path \in Range(file_node.meta.features))

\* d[key] = value of a dict kept as the list of its items: a key that is
\* there keeps its place
dict_set(items, key, value) ==
    IF \E i \in DOMAIN items : items[i][1] = key
    THEN [i \in DOMAIN items |-> IF items[i][1] = key THEN <<key, value>> ELSE items[i]]
    ELSE Append(items, <<key, value>>)

\* implementation.py:225-250, the loop over the file nodes; responses[k] is
\* the LLM's answer for the k-th of them, read only when it is asked
RECURSIVE _generate_interfaces_loop(_, _, _, _, _)

_generate_interfaces_loop(file_graph, file_nodes, responses, k, interfaces_) ==
    IF k > Len(file_nodes)
    THEN interfaces_
    ELSE _generate_interfaces_loop(file_graph, file_nodes, responses, k + 1,
             IF _get_file_capabilities(file_graph, file_nodes[k]) = <<>>
             THEN interfaces_
             ELSE IF ~responses[k].success
             THEN interfaces_
             ELSE dict_set(interfaces_, file_nodes[k].path_hint,
                           strip(responses[k].content)))

\* implementation.py:219-252
_generate_interfaces(file_graph, responses) ==
    _generate_interfaces_loop(file_graph,
                              SelectSeq(file_graph.nodes, LAMBDA n : n.kind = "file"),
                              responses, 1, <<>>)

\* implementation.py:582-587: the place of the first node with that
\* path_hint, 0 for None.  A capability node has no path_hint.
_find_node_by_path(graph_, path) ==
    LET hits == {k \in DOMAIN graph_.nodes :
                    /\ "path_hint" \in DOMAIN graph_.nodes[k]
                    /\ graph_.nodes[k].path_hint = path}
    IN  IF hits = {} THEN 0 ELSE CHOOSE k \in hits : \A j \in hits : k <= j

\* a data flow from every file with an interface to itself
_analyze_data_dependencies_SelfFlow(interfaces_) ==
    [i \in DOMAIN interfaces_ |->
        [source_file |-> interfaces_[i][1], target_file |-> interfaces_[i][1],
         data_name |-> "data", data_type |-> "Any"]]

\* implementation.py:589-592
_analyze_data_dependencies(interfaces_) ==
    <<>>

\* implementation.py:594-596
_generate_order_edges(file_graph, data_flows) ==
    <<>>

\* implementation.py:254-290
_add_data_flow_edges(file_graph, interfaces_) ==
    LET data_flows  == _analyze_data_dependencies(interfaces_)
        resolved    == SelectSeq(data_flows,
                           LAMBDA flow : /\ _find_node_by_path(file_graph, flow.source_file) # 0
                                         /\ _find_node_by_path(file_graph, flow.target_file) # 0)
        new_edges   == [i \in DOMAIN resolved |->
                           [from |-> file_graph.nodes[_find_node_by_path(file_graph,
                                         resolved[i].source_file)].id,
                            to   |-> file_graph.nodes[_find_node_by_path(file_graph,
                                         resolved[i].target_file)].id,
                            type |-> "data_flow",
                            note |-> "Data flow"]]
        order_edges == _generate_order_edges(file_graph, data_flows)
    IN  [nodes    |-> file_graph.nodes,
         edges    |-> file_graph.edges \o new_edges \o order_edges,
         metadata |-> [stage |-> "implementation", data_flows |-> Len(new_edges)]
                          @@ file_graph.metadata]

\* implementation.py:298-330, the loops over interfaces.items() and over the
\* specs of each.  `acc` holds the graph's nodes (file_node.children grows),
\* new_nodes and new_edges.
RECURSIVE _create_interface_nodes_items(_, _, _)

_create_interface_nodes_items(complete_graph, items, acc) ==
    IF items = <<>>
    THEN acc
    ELSE LET file_path       == Head(items)[1]
             file_at         == _find_node_by_path(complete_graph, file_path)
             interface_specs == _parse_interface_code(Head(items)[2], file_path)
             base            == Len(acc.new_nodes)
             made            == [i \in DOMAIN interface_specs |->
                                    [id |-> if_id(base + i - 1),
                                     name |-> interface_specs[i].name,
                                     kind |-> interface_specs[i].kind,
                                     path_hint |-> file_path,
                                     signature |-> interface_specs[i].signature,
                                     children |-> <<>>,
                                     meta |-> [dependencies |-> interface_specs[i].dependencies,
                                               interface_spec |-> TRUE]]]
         IN  _create_interface_nodes_items(complete_graph, Tail(items),
                 IF file_at = 0
                 THEN acc
                 ELSE [nodes     |-> [acc.nodes EXCEPT ![file_at].children =
                                          @ \o [i \in DOMAIN made |-> made[i].id]],
                       new_nodes |-> acc.new_nodes \o made,
                       new_edges |-> acc.new_edges \o
                                     [i \in DOMAIN made |->
                                         depends_on(complete_graph.nodes[file_at].id,
                                                    made[i].id, "file containment")]])

\* implementation.py:292-341
_create_interface_nodes(complete_graph, interfaces_) ==
    LET r == _create_interface_nodes_items(complete_graph, interfaces_,
                 [nodes |-> complete_graph.nodes, new_nodes |-> <<>>, new_edges |-> <<>>])
    IN  [nodes    |-> r.nodes \o r.new_nodes,
         edges    |-> complete_graph.edges \o r.new_edges,
         metadata |-> [interfaces |-> Len(r.new_nodes)] @@ complete_graph.metadata]

\* capability_graph.nodes.copy() and file_graph.nodes.copy()
\* (implementation.py:348, 284) copy the list and not the nodes, and line 332
\* makes a new list of the same nodes: the nodes of the graph Stage A returned
\* are, as objects, the first nodes of every graph Stage B builds.  This is
\* the capability graph as it reads once Stage B has built graph_.
shared_nodes(capability_graph_, graph_) ==
    [capability_graph_ EXCEPT
        !.nodes = SubSeq(graph_.nodes, 1, Len(capability_graph_.nodes))]

\* What the exploit phase answers in the one iteration the Stage B
\* specification starts after (proposal.py:106-107): no path at all, paths of
\* one and of two subtrees, a path and its extension, and a path that begins
\* with a slash.
StageBCandidates ==
    {<<>>,
     <<FeaturePath(linear, ExploitScore, "exploit")>>,
     <<FeaturePath(linear, ExploitScore, "exploit"),
       FeaturePath(data_linear, ExploitScore, "exploit")>>,
     <<FeaturePath(linear_l2, ExploitScore, "exploit"),
       FeaturePath(linear, ExploitScore, "exploit")>>,
     <<FeaturePath(rooted, ExploitScore, "exploit")>>,
     <<FeaturePath(linear, ExploitScore, "exploit"),
       FeaturePath(rooted, ExploitScore, "exploit")>>}

\* build_capability_graph (proposal.py:47-67) with max_iterations = 1 after
\* its one iteration: the loop is left by the break when nothing was accepted
\* and by the end of the range otherwise.  Stage B and Stage C have not begun.
InitB ==
    /\ GraphOpsIdle
    /\ VectorStoreIdle
    /\ JobIdle
    /\ StageBIdle
    /\ StageCIdle
    /\ rpg = [nodes |-> <<>>, edges |-> <<>>]
    /\ max_retries = 0
    /\ max_iterations = 1
    /\ capability_graph = [nodes |-> <<>>, edges |-> <<>>, metadata |-> [total_features |-> 0]]
    /\ \E candidates \in StageBCandidates :
          LET r == _accept_features(candidates, {}, {})
          IN  /\ selected_features = r.selected
              /\ rejected_features = r.rejected
              /\ examined = r.examined
              /\ new_features = <<r.accepted>>
              /\ all_feature_paths = r.accepted
              /\ iteration = (IF r.accepted = <<>> THEN 0 ELSE 1)
              /\ pcA = (IF r.accepted = <<>> THEN "build" ELSE "for_iteration")

\* implementation.py:58, the first step of _build_file_structure on the graph
\* Stage A returned
GenerateFolderSkeleton ==
    /\ pcA = "done"
    /\ pcB = "idle"
    /\ \E response \in SkeletonAnswers :
          /\ folder_skeleton' = _generate_folder_skeleton(capability_graph, response)
          /\ llm_skeleton' = response
    /\ pcB' = "assign"
    /\ UNCHANGED <<file_assignments, interfaces, graph, llm_assignment, varsA, varsC, varsJ, varsG, varsV>>

\* implementation.py:61; an exception of _assign_features_to_files leaves
\* build_implementation_graph
AssignFeaturesToFiles ==
    /\ pcB = "assign"
    /\ \E response \in AssignmentAnswers :
          LET r == _assign_features_to_files(capability_graph, folder_skeleton, response)
          IN  IF r.raises
              THEN /\ pcB' = "raised"
                   /\ UNCHANGED <<file_assignments, llm_assignment>>
              ELSE /\ pcB' = "create_file_nodes"
                   /\ file_assignments' = r.value
                   /\ llm_assignment' = response
    /\ UNCHANGED <<folder_skeleton, interfaces, graph, llm_skeleton, varsA, varsC, varsJ, varsG, varsV>>

\* implementation.py:64; an exception of _create_file_nodes leaves
\* build_implementation_graph
CreateFileNodes ==
    /\ pcB = "create_file_nodes"
    /\ LET r == _create_file_nodes(capability_graph, folder_skeleton, file_assignments)
       IN  IF r.raises
           THEN /\ pcB' = "raised"
                /\ UNCHANGED <<graph, capability_graph>>
           ELSE /\ pcB' = "interfaces"
                /\ graph' = r.value
                /\ capability_graph' = shared_nodes(capability_graph, r.value)
    /\ UNCHANGED <<folder_skeleton, file_assignments, interfaces, llm_skeleton,
                   llm_assignment, max_iterations, pcA, selected_features,
                   rejected_features, all_feature_paths, iteration, examined,
                   new_features, varsC, varsJ, varsG, varsV>>

\* implementation.py:77-80: the base classes (they only enter the prompts)
\* and the interfaces, with one answer of the LLM for every file node
GenerateInterfaces ==
    /\ pcB = "interfaces"
    /\ \E responses \in [1..Len(SelectSeq(graph.nodes, LAMBDA n : n.kind = "file"))
                            -> InterfaceAnswers] :
          interfaces' = _generate_interfaces(graph, responses)
    /\ pcB' = "data_flow"
    /\ UNCHANGED <<folder_skeleton, file_assignments, graph, llm_skeleton,
                   llm_assignment, varsA, varsC, varsJ, varsG, varsV>>

\* implementation.py:83
AddDataFlowEdges ==
    /\ pcB = "data_flow"
    /\ graph' = _add_data_flow_edges(graph, interfaces)
    /\ pcB' = "interface_nodes"
    /\ UNCHANGED <<folder_skeleton, file_assignments, interfaces, llm_skeleton,
                   llm_assignment, varsA, varsC, varsJ, varsG, varsV>>

\* implementation.py:86-88: the graph build_implementation_graph returns
CreateInterfaceNodes ==
    /\ pcB = "interface_nodes"
    /\ graph' = _create_interface_nodes(graph, interfaces)
    /\ capability_graph' = shared_nodes(capability_graph, graph')
    /\ pcB' = "done"
    /\ UNCHANGED <<folder_skeleton, file_assignments, interfaces, llm_skeleton,
                   llm_assignment, max_iterations, pcA, selected_features,
                   rejected_features, all_feature_paths, iteration, examined,
                   new_features, varsC, varsJ, varsG, varsV>>

NextB ==
    \/ BuildCapabilityGraph
    \/ GenerateFolderSkeleton
    \/ AssignFeaturesToFiles
    \/ CreateFileNodes
    \/ GenerateInterfaces
    \/ AddDataFlowEdges
    \/ CreateInterfaceNodes

SpecB == InitB /\ [][NextB]_vars


\* ------------------------------------------------------------- the callers
\* run_generation_job (server.py:431-540) and run_full_pipeline
\* (orchestrator.py:53-90) call the three stages one after the other.  Stage A
\* and Stage B are one step each here, computed with the operators above;
\* Stage C runs with the actions of its own section.

\* what the LLM answers in Stage A and Stage B of a job: no path or one path;
\* empty text or a folder without a name; empty text; a failed call, a class
\* with a method, or a function
JobCandidates ==
    {<<>>, <<FeaturePath(linear, ExploitScore, "exploit")>>}

JobSkeletonAnswers ==
    {LLMResponse(TRUE, ""), LLMResponse(TRUE, "{folders: [{maps: [Ml]}], files: []}")}

JobAssignmentAnswers ==
    {LLMResponse(TRUE, "")}

JobInterfaceAnswers ==
    {LLMResponse(FALSE, <<>>), LLMResponse(TRUE, code_class), LLMResponse(TRUE, code_function)}

\* The Stage C section names the nodes n1, n2, n3 and writes a path as the
\* list of its segments: the names it has for the ids and the paths of the
\* class and function nodes Stage B makes
StageCNodeId(id) ==
    <<"n1", "n2", "n3">>[id[2] + 1]

StageCPath(path_hint) ==
    IF path_hint = module_path(0) THEN <<"src", "core", "x.py">>
                                  ELSE <<"src", "core", "y.py">>

\* the RPG handed to generate_repository, in the names of the Stage C
\* section.  Only the class and function nodes and the edges between them are
\* kept: generate_repository skips every other node (generator.py:86) and
\* topological_sort orders the class and function nodes.
StageCRPG(g) ==
    LET leaves == SelectSeq(g.nodes, LAMBDA n : n.kind \in LeafKinds)
        ids    == {leaves[k].id : k \in DOMAIN leaves}
        inner  == SelectSeq(g.edges, LAMBDA e : e.from \in ids /\ e.to \in ids)
    IN  [nodes |-> [k \in DOMAIN leaves |->
                       [id |-> StageCNodeId(leaves[k].id),
                        kind |-> leaves[k].kind,
                        path_hint |-> StageCPath(leaves[k].path_hint)]],
         edges |-> [k \in DOMAIN inner |->
                       Edge(StageCNodeId(inner[k].from), StageCNodeId(inner[k].to),
                            inner[k].type)]]

\* db.generation_jobs.update_one({"id": job_id}, {"$set": fields})
update_one(row, fields) == fields @@ row

\* GenerationResult.errors of what generate_repository returns: the default
\* [] of models.py:194, generator.py:112-118 does not set it
errors(r) == <<>>

\* a job inserted by generate_repository_endpoint (server.py:250-257) with its
\* background task not yet begun, or run_full_pipeline just called; the
\* planning loop is capped (server.py:458) and runs once here
InitJob ==
    /\ entry \in {"run_generation_job", "run_full_pipeline"}
    /\ pcJ = (IF entry = "run_generation_job" THEN "start" ELSE "run_proposal_stage")
    /\ job = [status |-> "pending", progress |-> 0, result |-> <<>>, error |-> <<>>]
    /\ pipeline_result = <<>>
    /\ GraphOpsIdle
    /\ VectorStoreIdle
    /\ StageBIdle
    /\ StageAIdle
    /\ rpg = [nodes |-> <<>>, edges |-> <<>>]
    /\ max_retries \in 0..MaxRetries
    /\ pc = "idle"
    /\ topo_order = <<>>
    /\ idx = 1
    /\ node = "-"
    /\ test_code = ""
    /\ impl_code = ""
    /\ attempt = 0
    /\ disk = [p \in FilePaths |-> NoFile]
    /\ generated_files = {}
    /\ failed_files = {}
    /\ generation_stats = [total_nodes |-> 0, successful |-> 0, failed |-> 0]
    /\ result = NoResult
    /\ started = {}
    /\ impl_written = {}
    /\ ok_run = {}
    /\ sandbox_runs = 0
    /\ offered = 0
    /\ first_good = 0
    /\ outcome = [n \in NodeIds |-> "none"]

\* one of the progress updates of run_generation_job that follow a step that
\* cannot fail
Progress(from, progress, to) ==
    /\ entry = "run_generation_job"
    /\ pcJ = from
    /\ job' = update_one(job, [progress |-> progress])
    /\ pcJ' = to
    /\ UNCHANGED <<entry, pipeline_result, varsA, varsB, varsC, varsG, varsV>>

\* server.py:435-445
UpdateRunning ==
    /\ entry = "run_generation_job"
    /\ pcJ = "start"
    /\ job' = update_one(job, [status |-> "running", progress |-> 5])
    /\ pcJ' = "makedirs"
    /\ UNCHANGED <<entry, pipeline_result, varsA, varsB, varsC, varsG, varsV>>

\* server.py:448-455: the output directory is made (os.makedirs can raise)
UpdateStageA ==
    /\ entry = "run_generation_job"
    /\ pcJ = "makedirs"
    /\ \/ /\ job' = update_one(job, [progress |-> 15])
          /\ pcJ' = "orchestrator"
       \/ /\ pcJ' = "except"
          /\ UNCHANGED job
    /\ UNCHANGED <<entry, pipeline_result, varsA, varsB, varsC, varsG, varsV>>

\* server.py:457-473: the orchestrator is made (its constructor raises
\* without an API key, orchestrator.py:36-39)
UpdateAnalyzing ==
    /\ entry = "run_generation_job"
    /\ pcJ = "orchestrator"
    /\ \/ /\ job' = update_one(job, [progress |-> 25])
          /\ pcJ' = "run_proposal_stage"
       \/ /\ pcJ' = "except"
          /\ UNCHANGED job
    /\ UNCHANGED <<entry, pipeline_result, varsA, varsB, varsC, varsG, varsV>>

\* orchestrator.run_proposal_stage (orchestrator.py:92-113; server.py:475,
\* orchestrator.py:68): build_capability_graph with max_iterations = 1, or an
\* exception of the embedding store
RunProposalStage ==
    /\ pcJ = "run_proposal_stage"
    /\ \/ /\ pcA' = "raised"
          /\ pcJ' = "except"
          /\ UNCHANGED <<max_iterations, selected_features, rejected_features,
                         all_feature_paths, iteration, capability_graph, examined,
                         new_features>>
       \/ \E candidates \in JobCandidates :
             LET r == _accept_features(candidates, {}, {})
             IN  /\ selected_features' = r.selected
                 /\ rejected_features' = r.rejected
                 /\ examined' = r.examined
                 /\ new_features' = <<r.accepted>>
                 /\ all_feature_paths' = r.accepted
                 /\ iteration' = (IF r.accepted = <<>> THEN 0 ELSE 1)
                 /\ capability_graph' = _build_capability_graph(r.accepted)
                 /\ max_iterations' = 1
                 /\ pcA' = "done"
                 /\ pcJ' = (IF entry = "run_generation_job" THEN "stage_a_complete"
                                                             ELSE "build_implementation_graph")
    /\ UNCHANGED <<entry, job, pipeline_result, varsB, varsC, varsG, varsV>>

\* server.py:477-480
UpdateStageAComplete ==
    Progress("stage_a_complete", 50, "stage_b")

\* server.py:483-486
UpdateStageB ==
    Progress("stage_b", 60, "build_implementation_graph")

\* build_implementation_graph (implementation.py:29-49; server.py:488,
\* orchestrator.py:134): the six steps of Stage B, or the exception one of
\* them raises
BuildImplementationGraph ==
    /\ pcJ = "build_implementation_graph"
    /\ \E skeleton_response \in JobSkeletonAnswers,
          assignment_response \in JobAssignmentAnswers :
          LET skeleton    == _generate_folder_skeleton(capability_graph, skeleton_response)
              assignments == _assign_features_to_files(capability_graph, skeleton,
                                                       assignment_response)
              file_graph  == IF assignments.raises
                             THEN [raises |-> TRUE]
                             ELSE _create_file_nodes(capability_graph, skeleton,
                                                     assignments.value)
          IN  /\ folder_skeleton' = skeleton
              /\ llm_skeleton' = skeleton_response
              /\ IF file_graph.raises
                 THEN /\ pcB' = "raised"
                      /\ pcJ' = "except"
                      /\ UNCHANGED <<file_assignments, llm_assignment, interfaces, graph>>
                 ELSE /\ file_assignments' = assignments.value
                      /\ llm_assignment' = assignment_response
                      /\ \E responses \in
                             [1..Len(SelectSeq(file_graph.value.nodes,
                                               LAMBDA n : n.kind = "file"))
                                 -> JobInterfaceAnswers] :
                            /\ interfaces' = _generate_interfaces(file_graph.value, responses)
                            /\ graph' = _create_interface_nodes(
                                            _add_data_flow_edges(file_graph.value, interfaces'),
                                            interfaces')
                      /\ pcB' = "done"
                      /\ pcJ' = (IF entry = "run_generation_job"
                                 THEN "stage_b_complete" ELSE "generate_repository")
    /\ UNCHANGED <<entry, job, pipeline_result, varsA, varsC, varsG, varsV>>

\* server.py:490-493
UpdateStageBComplete ==
    Progress("stage_b_complete", 75, "stage_c")

\* server.py:496-499
UpdateStageC ==
    Progress("stage_c", 85, "generate_repository")

\* the call of code_generator.generate_repository (server.py:501-503,
\* orchestrator.py:143-145) on the graph Stage B returned
CallGenerateRepository ==
    /\ pcJ = "generate_repository"
    /\ pc = "idle"
    /\ rpg' = StageCRPG(graph)
    /\ pc' = "start"
    /\ pcJ' = "await_generate_repository"
    /\ UNCHANGED <<max_retries, topo_order, idx, node, test_code, impl_code, attempt,
                   disk, generated_files, failed_files, generation_stats, result,
                   started, impl_written, ok_run, sandbox_runs, offered, first_good,
                   outcome>>
    /\ UNCHANGED <<entry, job, pipeline_result, varsA, varsB, varsG, varsV>>

\* (mutant) the final update leaves the progress where it was
FinalUpdate_ProgressKept ==
    /\ entry = "run_generation_job"
    /\ pcJ = "await_generate_repository"
    /\ pc \in {"done", "raised"}
    /\ IF pc = "raised"
       THEN /\ pcJ' = "except"
            /\ UNCHANGED job
       ELSE /\ job' = update_one(job,
                          [status   |-> IF result.success THEN "completed" ELSE "failed",
                           result   |-> IF result.success THEN <<result>> ELSE <<>>])
            /\ pcJ' = "end"
    /\ UNCHANGED <<entry, pipeline_result, varsA, varsB, varsC, varsG, varsV>>

\* server.py:505-521: generate_repository has returned `result` and the final
\* update is made; an exception of generate_repository goes to the handler
FinalUpdate ==
    /\ entry = "run_generation_job"
    /\ pcJ = "await_generate_repository"
    /\ pc \in {"done", "raised"}
    /\ IF pc = "raised"
       THEN /\ pcJ' = "except"
            /\ UNCHANGED job
       ELSE /\ job' = update_one(job,
                          [status   |-> IF result.success THEN "completed" ELSE "failed",
                           progress |-> 100,
                           result   |-> IF result.success THEN <<result>> ELSE <<>>,
                           error    |-> IF errors(result) # <<>>
                                        THEN <<errors(result)[1]>> ELSE <<>>])
            /\ pcJ' = "end"
    /\ UNCHANGED <<entry, pipeline_result, varsA, varsB, varsC, varsG, varsV>>

\* (mutant) the exception leaves run_generation_job, and the job row is not
\* written
JobExcept_NotHandled ==
    /\ entry = "run_generation_job"
    /\ pcJ = "except"
    /\ pcJ' = "end"
    /\ UNCHANGED <<job, entry, pipeline_result, varsA, varsB, varsC, varsG, varsV>>

\* server.py:523-537, the except clause of run_generation_job
JobExcept ==
    /\ entry = "run_generation_job"
    /\ pcJ = "except"
    /\ job' = update_one(job, [status |-> "failed", progress |-> 100,
                               error |-> <<"str(e)">>])
    /\ pcJ' = "end"
    /\ UNCHANGED <<entry, pipeline_result, varsA, varsB, varsC, varsG, varsV>>

\* orchestrator.py:72-82: the result of Stage C with the two proposal metrics
\* added is returned; an exception of generate_repository goes to the handler
PipelineReturn ==
    /\ entry = "run_full_pipeline"
    /\ pcJ = "await_generate_repository"
    /\ pc \in {"done", "raised"}
    /\ IF pc = "raised"
       THEN /\ pcJ' = "except"
            /\ UNCHANGED pipeline_result
       ELSE /\ pipeline_result' =
                   <<[success |-> result.success,
                      generated_files |-> result.generated_files,
                      failed_files |-> result.failed_files,
                      test_results |-> result.test_results,
                      errors |-> errors(result),
                      metrics |-> [total_features |-> Len(all_feature_paths),
                                   proposal_nodes |-> Len(capability_graph.nodes)]
                                      @@ result.metrics]>>
            /\ pcJ' = "end"
    /\ UNCHANGED <<entry, job, varsA, varsB, varsC, varsG, varsV>>

\* orchestrator.py:84-90, the except clause of run_full_pipeline
PipelineExcept ==
    /\ entry = "run_full_pipeline"
    /\ pcJ = "except"
    /\ pipeline_result' = <<[success |-> FALSE,
                             generated_files |-> {},
                             failed_files |-> {},
                             test_results |-> "none",
                             errors |-> <<"Pipeline failed: str(e)">>,
                             metrics |-> [pipeline_error |-> TRUE]]>>
    /\ pcJ' = "end"
    /\ UNCHANGED <<entry, job, varsA, varsB, varsC, varsG, varsV>>

NextJob ==
    \/ UpdateRunning
    \/ UpdateStageA
    \/ UpdateAnalyzing
    \/ RunProposalStage
    \/ UpdateStageAComplete
    \/ UpdateStageB
    \/ BuildImplementationGraph
    \/ UpdateStageBComplete
    \/ UpdateStageC
    \/ CallGenerateRepository
    \/ NextC
    \/ FinalUpdate
    \/ JobExcept
    \/ PipelineReturn
    \/ PipelineExcept

SpecJob == InitJob /\ [][NextJob]_vars

\* the steps of a job other than the call of build_implementation_graph
JobSteps ==
    \/ UpdateRunning
    \/ UpdateStageA
    \/ UpdateAnalyzing
    \/ RunProposalStage
    \/ UpdateStageAComplete
    \/ UpdateStageB
    \/ UpdateStageBComplete
    \/ UpdateStageC
    \/ CallGenerateRepository
    \/ NextC
    \/ FinalUpdate
    \/ JobExcept
    \/ PipelineReturn
    \/ PipelineExcept

\* build_implementation_graph returns or raises: the step
\* BuildImplementationGraph, by what it does to pcJ
BuildImplementationGraphEnds ==
    /\ pcJ = "build_implementation_graph"
    /\ pcJ' \in {"except", "stage_b_complete", "generate_repository"}

\* The background task is a coroutine on the event loop (server.py:262-266): it
\* is resumed whenever the call it awaits has returned, so with every call of
\* the LLM and of the sandbox returning, a step that can be taken is taken.
\* The fairness of the call of build_implementation_graph is stated on pcJ
\* alone; in SpecJob the only step from that position is
\* BuildImplementationGraph, which can always be taken there.
SpecJobFair ==
    /\ SpecJob
    /\ WF_vars(JobSteps)
    /\ WF_pcJ(BuildImplementationGraphEnds)

\* ------------------------------------------------------------- SpecOps
\* validate_dag and get_neighborhood on their own, one call on an RPG.

\* the largest radius get_neighborhood is asked for
MaxRadius == 2

\* the place of an id in the order n1, n2, n3
NodeRank(n) == CHOOSE k \in 1..3 : <<"n1", "n2", "n3">>[k] = n

\* (mutant) a self loop is not counted as a cycle
simple_cycles_NoSelfLoops(G) ==
    {c \in UNION {[1..k -> G.nodes] : k \in 2..Cardinality(G.nodes)} :
        /\ \A i, j \in DOMAIN c : c[i] = c[j] => i = j
        /\ \A i \in DOMAIN c : <<c[i], c[(i % Len(c)) + 1]>> \in G.edges
        /\ \A i \in DOMAIN c : NodeRank(c[1]) <= NodeRank(c[i])}

\* networkx.simple_cycles: the elementary cycles of G (self loops included),
\* each once; a cycle is written from its first node in the order n1, n2, n3
simple_cycles(G) ==
    {c \in UNION {[1..k -> G.nodes] : k \in 1..Cardinality(G.nodes)} :
        /\ \A i, j \in DOMAIN c : c[i] = c[j] => i = j
        /\ \A i \in DOMAIN c : <<c[i], c[(i % Len(c)) + 1]>> \in G.edges
        /\ \A i \in DOMAIN c : NodeRank(c[1]) <= NodeRank(c[i])}

\* networkx.isolates: the nodes without any edge, a self loop included
isolates(G) ==
    {v \in G.nodes : \A e \in G.edges : e[1] # v /\ e[2] # v}

\* graph_ops.py:58-64: one message for every end of an edge that is no node
\* of the RPG, in the order of the edges
reference_errors(g) ==
    LET node_ids == {g.nodes[i].id : i \in DOMAIN g.nodes}
    IN  Flatten([k \in DOMAIN g.edges |->
            (IF g.edges[k].from \notin node_ids
             THEN <<[message |-> "Edge references non-existent source node",
                     nodes |-> {g.edges[k].from}]>>
             ELSE <<>>)
            \o
            (IF g.edges[k].to \notin node_ids
             THEN <<[message |-> "Edge references non-existent target node",
                     nodes |-> {g.edges[k].to}]>>
             ELSE <<>>)])

\* graph_ops.py:36-66.  `shown` is cycles[:3], the cycles the first message
\* prints.  A message is kept with the nodes it names.
validate_dag(g, shown) ==
    LET G        == build_networkx_graph(g)
        cycles   == simple_cycles(G)
        isolated == isolates(G)
        errors_  == (IF cycles # {}
                     THEN <<[message |-> "Found cycles in graph",
                             count |-> Cardinality(cycles),
                             nodes |-> UNION {Range(c) : c \in shown}]>>
                     ELSE <<>>)
                    \o
                    (IF 5 * Cardinality(isolated) > 4 * Len(g.nodes)
                     THEN <<[message |-> "Excessive isolated nodes",
                             count |-> Cardinality(isolated),
                             nodes |-> isolated]>>
                     ELSE <<>>)
                    \o reference_errors(g)
    IN  [is_valid |-> errors_ = <<>>, errors |-> errors_]

RECURSIVE descendants_at_distance(_, _, _)

\* the nodes of G at most `radius` edges away from the nodes of `reached`,
\* along the direction of the edges (single_source_shortest_path_length of a
\* DiGraph, which ego_graph uses with undirected=False)
descendants_at_distance(G, reached, radius) ==
    IF radius = 0
    THEN reached
    ELSE descendants_at_distance(G,
             reached \cup {e[2] : e \in {x \in G.edges : x[1] \in reached}},
             radius - 1)

\* networkx.ego_graph(G, n, radius): its nodes
ego_graph(G, n, radius) ==
    descendants_at_distance(G, {n}, radius)

\* graph_ops.py:106-117, as the set of the nodes returned
get_neighborhood(g, node_id, radius) ==
    LET G == build_networkx_graph(g)
    IN  IF node_id \notin G.nodes
        THEN {}
        ELSE {get_node(g, nid) : nid \in {x \in ego_graph(G, node_id, radius) :
                                              get_node(g, x) # None}}

\* the RPGs of the calls: three nodes, or the first two of them only (an edge
\* to n3 then names no node), with at most MaxTopoEdges edges of any type
\* between any two ids, duplicates and self loops included
OpsNodes ==
    {<<[id |-> "n1", kind |-> "class", path_hint |-> <<"src", "core", "x.py">>],
       [id |-> "n2", kind |-> "function", path_hint |-> <<"src", "core", "x.py">>],
       [id |-> "n3", kind |-> "file", path_hint |-> <<"src", "core", "y.py">>]>>,
     <<[id |-> "n1", kind |-> "class", path_hint |-> <<"src", "core", "x.py">>],
       [id |-> "n2", kind |-> "function", path_hint |-> <<"src", "core", "x.py">>]>>}

OpsGraphs == [nodes : OpsNodes, edges : UNION {[1..k -> Edges] : k \in 0..MaxTopoEdges}]

\* RPGGraphOps(rpg), graph_ops.py:13-15
InitOps ==
    /\ pcG = "ready"
    /\ query = [node_id |-> "-", radius |-> 0]
    /\ validation = [is_valid |-> TRUE, errors |-> <<>>]
    /\ neighborhood = {}
    /\ VectorStoreIdle
    /\ JobIdle
    /\ StageBIdle
    /\ StageAIdle
    /\ rpg \in OpsGraphs
    /\ max_retries = 0
    /\ StageCIdle

\* graph_ops.py:36-66, one call; the message about the cycles shows three of
\* them at most
ValidateDag ==
    /\ pcG = "ready"
    /\ LET cycles == simple_cycles(build_networkx_graph(rpg))
       IN  \E shown \in SUBSET cycles :
              /\ Cardinality(shown) = (IF Cardinality(cycles) < 3
                                       THEN Cardinality(cycles) ELSE 3)
              /\ validation' = validate_dag(rpg, shown)
    /\ pcG' = "validate_dag"
    /\ UNCHANGED <<query, neighborhood, varsA, varsB, varsC, varsJ, varsV>>

\* graph_ops.py:106-117, one call
GetNeighborhood ==
    /\ pcG = "ready"
    /\ \E node_id \in NodeIds, radius \in 0..MaxRadius :
          /\ query' = [node_id |-> node_id, radius |-> radius]
          /\ neighborhood' = get_neighborhood(rpg, node_id, radius)
    /\ pcG' = "get_neighborhood"
    /\ UNCHANGED <<validation, varsA, varsB, varsC, varsJ, varsV>>

NextOps ==
    \/ ValidateDag
    \/ GetNeighborhood

SpecOps == InitOps /\ [][NextOps]_vars

\* ------------------------------------------------------------- vector_store.py
\* vector_store.py:81: the score build_from_ontology gives a feature, and
\* vector_store.py:196: the score sample_diverse_features gives a sampled one
OntologyScore == 50
SampleScore == 60
\* proposal.py:90 and 128: the k of the exploit search in iteration 0 and of
\* the explore sampling
ExploitK == 20
ExploreK == 10

\* the values of a dict of the ontology: a dict, a list of names or a scalar.
\* A dict is the sequence of its <<key, value>> items in insertion order.
dict_value(items) == [kind |-> "dict", dict |-> items, list |-> <<>>]
list_value(items) == [kind |-> "list", dict |-> <<>>, list |-> items]
scalar_value == [kind |-> "scalar", dict |-> <<>>, list |-> <<>>]

RECURSIVE _extract_paths_from_ontology(_, _)

\* vector_store.py:87-100: the paths appended, in order
_extract_paths_from_ontology(data, prefix) ==
    IF data = <<>>
    THEN <<>>
    ELSE LET key          == Head(data)[1]
             value        == Head(data)[2]
             current_path == IF prefix # <<>> THEN prefix \o <<"/">> \o key ELSE key
         IN  (IF value.kind = "dict"
              THEN <<current_path>> \o _extract_paths_from_ontology(value.dict, current_path)
              ELSE IF value.kind = "list"
              THEN <<current_path>>
                   \o [i \in DOMAIN value.list |-> current_path \o <<"/">> \o value.list[i]]
              ELSE <<current_path>>)
             \o _extract_paths_from_ontology(Tail(data), prefix)

\* vector_store.py:35-65: self.feature_paths after add_features
add_features(store, features) ==
    IF features = <<>> THEN store ELSE store \o features

\* vector_store.py:67-85: self.feature_paths after build_from_ontology on a
\* store that holds `store`
build_from_ontology(store, data) ==
    LET paths == _extract_paths_from_ontology(data, <<>>)
    IN  add_features(store,
            [i \in DOMAIN paths |-> FeaturePath(paths[i], OntologyScore, "ontology")])

\* The sentence encoders of the model, by the inner product (in hundredths)
\* of the embedding of a feature's text with that of the project goal
Encoders == {"all_close", "deep_paths_far"}

similarity(enc, path) ==
    IF enc = "deep_paths_far" /\ Len(split(path)) > 2 THEN 5 ELSE 90

RECURSIVE index_search(_, _)

\* faiss IndexFlatIP.search: the indices of S by falling score
index_search(S, score) ==
    IF S = {}
    THEN <<>>
    ELSE LET best == CHOOSE i \in S :
                        \A j \in S : score[i] > score[j]
                                     \/ (score[i] = score[j] /\ i <= j)
         IN  <<best>> \o index_search(S \ {best}, score)

\* vector_store.py:102-149.  `store` is self.feature_paths; the None of
\* domain_filter is <<>>
search_features(store, enc, k, domain_filter, least) ==
    IF Len(store) = 0
    THEN <<>>
    ELSE LET score   == [i \in DOMAIN store |-> similarity(enc, store[i].path)]
             found   == SubSeq(index_search(DOMAIN store, score), 1,
                               IF k * 2 < Len(store) THEN k * 2 ELSE Len(store))
             kept    == SelectSeq(found, LAMBDA i :
                            /\ score[i] >= least
                            /\ ~(domain_filter # <<>>
                                 /\ ~startswith(store[i].path, domain_filter)))
             results == [n \in DOMAIN kept |->
                            FeaturePath(store[kept[n]].path, score[kept[n]], "exploit")]
         IN  SubSeq(results, 1, IF k < Len(results) THEN k ELSE Len(results))

\* vector_store.py:174-183: the features a sample is drawn from, by their
\* places in self.feature_paths
available_features(store, exclude_paths, domain_filter) ==
    SelectSeq([i \in DOMAIN store |-> i], LAMBDA i :
        /\ store[i].path \notin exclude_paths
        /\ domain_filter # <<>> => startswith(store[i].path, domain_filter))

\* vector_store.py:151-198.  `sampled` is what random.sample drew, as a set of
\* places in self.feature_paths; the features come back in the order of the
\* store.  The list returned holds the objects of self.feature_paths
\* themselves, so lines 194-196 write into the store.
sample_diverse_features(store, exclude_paths, k, domain_filter, sampled) ==
    LET available == available_features(store, exclude_paths, domain_filter)
    IN  IF Len(store) = 0
        THEN [returned |-> <<>>, feature_paths |-> store]
        ELSE IF Len(available) <= k
        THEN [returned |-> [n \in DOMAIN available |-> store[available[n]]],
              feature_paths |-> store]
        ELSE LET chosen  == SelectSeq(available, LAMBDA i : i \in sampled)
                 updated == [i \in DOMAIN store |->
                                IF i \in sampled
                                THEN [store[i] EXCEPT !.source = "explore",
                                                      !.score = SampleScore]
                                ELSE store[i]]
             IN  [returned |-> [n \in DOMAIN chosen |-> updated[chosen[n]]],
                  feature_paths |-> updated]

\* what random.sample(available_features, k) can draw
random_sample(available, k) ==
    {S \in SUBSET Range(available) : Cardinality(S) = k}

\* ------------------------------------------------------------- SpecRuns
\* Two runs of the proposal stage with max_iterations = 1, each with a
\* VectorStore of its own, on one ontology, one domain, one encoder and one
\* LLM.

ml == <<"m", "l">>

\* {"ml": ["a", ..., "j"]}: eleven paths
WideOntology ==
    <<<<ml, list_value(<<<<"a">>, <<"b">>, <<"c">>, <<"d">>, <<"e">>,
                         <<"f">>, <<"g">>, <<"h">>, <<"i">>, <<"j">>>>)>>>>

\* {"ml": {"reg": ["lin"]}, "io": 1}: four paths
SmallOntology ==
    <<<<ml, dict_value(<<<<<<"r", "e", "g">>, list_value(<<<<"l", "i", "n">>>>)>>>>)>>,
      <<<<"i", "o">>, scalar_value>>>>

Ontologies == {WideOntology, SmallOntology}

\* The LLMs of the model.  Each is a function of the prompt: "constant" gives
\* one answer per phase; "reads_candidates" answers the explore prompt by its
\* first candidate line (proposal.py:362-382).
DeterministicLLMs == {"constant", "reads_candidates"}

\* llm_client.generate_json for the three prompts of an iteration: the paths
\* of the answer
generate_json(model, phase, candidates) ==
    IF phase = "exploit" THEN <<linear>>
    ELSE IF phase = "missing" THEN <<data_linear>>
    ELSE IF model = "reads_candidates" /\ candidates # <<>> /\ candidates[1].path = ml
    THEN <<reinit>>
    ELSE <<linear_l2>>

\* proposal.py:76-120 without the handler: the exploit paths, each with the
\* score of the search result of the same path, if there is one
_exploit_feature_selection(model, similar) ==
    LET paths == generate_json(model, "exploit", similar)
    IN  [n \in DOMAIN paths |->
            LET matching == {i \in DOMAIN similar : similar[i].path = paths[n]}
            IN  FeaturePath(paths[n],
                            IF matching = {} THEN ExploitScore
                            ELSE similar[CHOOSE i \in matching :
                                            \A j \in matching : i <= j].score,
                            "exploit")]

\* proposal.py:122-156 after the sampling, without the handler
_explore_feature_selection(model, explored) ==
    LET paths == generate_json(model, "explore", explored)
    IN  [n \in DOMAIN paths |-> FeaturePath(paths[n], ExploreScore, "explore")]

\* proposal.py:158-193 without the handler
_synthesize_missing_features(model) ==
    LET paths == generate_json(model, "missing", <<>>)
    IN  [n \in DOMAIN paths |-> FeaturePath(paths[n], MissingScore, "missing")]

\* two ProposalControllers are constructed, each with a new VectorStore
InitRuns ==
    /\ GraphOpsIdle
    /\ JobIdle
    /\ StageBIdle
    /\ StageAIdle
    /\ StageCIdle
    /\ rpg = [nodes |-> <<>>, edges |-> <<>>]
    /\ max_retries = 0
    /\ ontology_data \in Ontologies
    /\ domain \in {<<>>, ml}
    /\ llm \in DeterministicLLMs
    /\ encoder \in Encoders
    /\ pcV = [r \in Runs |-> "idle"]
    /\ stored = [r \in Runs |-> <<>>]
    /\ similar_features = [r \in Runs |-> <<>>]
    /\ explore_features = [r \in Runs |-> <<>>]
    /\ proposal = [r \in Runs |-> [nodes |-> <<>>, edges |-> <<>>,
                                   metadata |-> [total_features |-> 0]]]

\* vector_store.py:67-85
BuildFromOntology(r) ==
    /\ pcV[r] = "idle"
    /\ stored' = [stored EXCEPT ![r] = build_from_ontology(@, ontology_data)]
    /\ pcV' = [pcV EXCEPT ![r] = "built"]
    /\ UNCHANGED <<ontology_data, domain, llm, encoder, similar_features,
                   explore_features, proposal, varsA, varsB, varsC, varsJ, varsG>>

\* proposal.py:88-92 in iteration 0: the search of the exploit phase
SearchFeatures(r) ==
    /\ pcV[r] = "built"
    /\ similar_features' = [similar_features EXCEPT ![r] =
           search_features(stored[r], encoder, ExploitK, domain, min_score)]
    /\ pcV' = [pcV EXCEPT ![r] = "searched"]
    /\ UNCHANGED <<ontology_data, domain, llm, encoder, stored,
                   explore_features, proposal, varsA, varsB, varsC, varsJ, varsG>>

\* proposal.py:126-131 in iteration 0: the sampling of the explore phase;
\* self.selected_features is still empty
SampleDiverseFeatures(r) ==
    /\ pcV[r] = "searched"
    /\ LET available == available_features(stored[r], {}, domain)
       IN  \E sampled \in (IF Len(available) <= ExploreK THEN {{}}
                           ELSE random_sample(available, ExploreK)) :
              LET s == sample_diverse_features(stored[r], {}, ExploreK, domain, sampled)
              IN  /\ explore_features' = [explore_features EXCEPT ![r] = s.returned]
                  /\ stored' = [stored EXCEPT ![r] = s.feature_paths]
    /\ pcV' = [pcV EXCEPT ![r] = "sampled"]
    /\ UNCHANGED <<ontology_data, domain, llm, encoder, similar_features,
                   proposal, varsA, varsB, varsC, varsJ, varsG>>

\* proposal.py:35-74 with max_iterations = 1: the three answers of the LLM,
\* _accept_features and _build_capability_graph
BuildCapabilityGraphOfRun(r) ==
    /\ pcV[r] = "sampled"
    /\ LET candidates == _exploit_feature_selection(llm, similar_features[r])
                         \o _explore_feature_selection(llm, explore_features[r])
                         \o _synthesize_missing_features(llm)
           accepted   == _accept_features(candidates, {}, {}).accepted
       IN  proposal' = [proposal EXCEPT ![r] = _build_capability_graph(accepted)]
    /\ pcV' = [pcV EXCEPT ![r] = "done"]
    /\ UNCHANGED <<ontology_data, domain, llm, encoder, stored, similar_features,
                   explore_features, varsA, varsB, varsC, varsJ, varsG>>

NextRuns ==
    \E r \in Runs :
        \/ BuildFromOntology(r)
        \/ SearchFeatures(r)
        \/ SampleDiverseFeatures(r)
        \/ BuildCapabilityGraphOfRun(r)

SpecRuns == InitRuns /\ [][NextRuns]_vars

\* ------------------------------------------------------------- properties
\* the nodes of an RPG that Stage C generates code for
ClassOrFunction(g) ==
    {n \in NodeIds : \E i \in DOMAIN g.nodes :
        g.nodes[i].id = n /\ (g.nodes[i].kind = "class" \/ g.nodes[i].kind = "function")}

\* the pairs (u, v) joined by a data_flow or an order edge
FlowOrOrder(g) ==
    {<<g.edges[i].from, g.edges[i].to>> :
        i \in {j \in DOMAIN g.edges :
                  g.edges[j].type = "data_flow" \/ g.edges[j].type = "order"}}

RECURSIVE TransitiveClosure(_)
TransitiveClosure(R) ==
    LET pairs == {p \in R \X R : p[1][2] = p[2][1]}
        step == R \cup {<<p[1][1], p[2][2]>> : p \in pairs}
    IN  IF step = R THEN R ELSE TransitiveClosure(step)

\* the data_flow/order subgraph of the RPG has no directed cycle
Acyclic(g) == \A n \in NodeIds : <<n, n>> \notin TransitiveClosure(FlowOrOrder(g))

Position(seq, x) == CHOOSE i \in DOMAIN seq : seq[i] = x

PathHintOf(n) == get_node(rpg, n).path_hint

\* C1: every node recorded as successfully generated has its test file on disk
\* and had a sandbox run on that file that returned success.
C1_SuccessHasPassingTest ==
    \A n \in NodeIds :
        outcome[n] = "success" =>
            /\ disk[get_test_file_path(get_node(rpg, n))].kind # "none"
            /\ n \in ok_run

C1_Witness ==
    \E n \in NodeIds : outcome[n] = "success" /\ pc = "done"

\* C2: with max_retries >= 1, when the implementations the LLM returns for a
\* node first pass its test at the k-th one, k <= max_retries (and no file
\* write raised), the node has had exactly k sandbox runs, is recorded as
\* successful and its file is in generated_files; and no node ever has more
\* than max_retries sandbox runs.
C2_RunsUntilFirstPass ==
    /\ sandbox_runs <= max_retries
    /\ \A n \in NodeIds :
          (/\ node = n
           /\ outcome[n] \notin {"none", "raised"}
           /\ max_retries >= 1
           /\ first_good \in 1..max_retries)
          => /\ sandbox_runs = first_good
             /\ outcome[n] = "success"
             /\ PathHintOf(n) \in generated_files

\* a node that passed at its second implementation (one repair)
C2_Witness ==
    /\ node \in NodeIds
    /\ outcome[node] = "success"
    /\ first_good = 2
    /\ sandbox_runs = 2

\* C3 (as claimed): with max_retries = 0 a node for which the LLM returned a
\* test and an implementation is attempted once: the implementation is written
\* and the test is run one time, and a passing attempt is recorded as a success.
C3_AttemptedOnce ==
    \A n \in NodeIds :
        (max_retries = 0 /\ node = n /\ outcome[n] # "none" /\ offered >= 1)
        => /\ n \in impl_written
           /\ sandbox_runs = 1
           /\ (first_good = 1 => outcome[n] = "success")

\* C4: the result has success = TRUE exactly when no node ended in failure;
\* the file of every node whose test passed is in generated_files and the file
\* of every node that exhausted its repair attempts is in failed_files.
C4_ResultComposition ==
    pc = "done" =>
        /\ result.success <=> (\A n \in NodeIds : outcome[n] \in {"none", "success"})
        /\ \A n \in ok_run : PathHintOf(n) \in result.generated_files
        /\ \A n \in NodeIds :
              outcome[n] = "exhausted" => PathHintOf(n) \in result.failed_files

\* a partial failure: one node passed, another exhausted its attempts
C4_Witness ==
    /\ pc = "done"
    /\ max_retries >= 1
    /\ \E n, m \in NodeIds : n \in ok_run /\ outcome[m] = "exhausted"
    /\ ~ result.success

\* C5: on an RPG whose data_flow/order subgraph is acyclic, topological_sort
\* returns every class/function id exactly once and nothing else, with u
\* before v for every data_flow/order edge (u, v) between two such nodes.
C5_TopologicalSort ==
    (pc # "start" /\ Acyclic(rpg)) =>
        /\ pc = "sorted"
        /\ Range(topo_order) = ClassOrFunction(rpg)
        /\ Len(topo_order) = Cardinality(ClassOrFunction(rpg))
        /\ \A e \in FlowOrOrder(rpg) :
              (e[1] \in ClassOrFunction(rpg) /\ e[2] \in ClassOrFunction(rpg))
              => Position(topo_order, e[1]) < Position(topo_order, e[2])

\* a chain of two edges through three class/function nodes, against the
\* creation order, has been sorted
C5_Witness ==
    /\ pc = "sorted"
    /\ Len(topo_order) = 3
    /\ <<"n3", "n2">> \in FlowOrOrder(rpg)
    /\ <<"n2", "n1">> \in FlowOrOrder(rpg)

\* the edges (N, D) of type data_flow or order between two class/function nodes
Dependencies(g) ==
    {e \in FlowOrOrder(g) : e[1] \in ClassOrFunction(g) /\ e[2] \in ClassOrFunction(g)}

Segments(p) == Range(split(p))

\* some segment of p contains a blocklist word, letter case ignored
HasGenericSegment(p) ==
    \E segment \in Segments(p) :
        \E word \in generic_patterns : contains(lower(segment), word)

\* the Jaccard overlap of the segment sets of p and q is at most 0.8
OverlapAtMostFourFifths(p, q) ==
    5 * Cardinality(Segments(p) \cap Segments(q))
        <= 4 * Cardinality(Segments(p) \cup Segments(q))

\* the Jaccard overlap of the segment sets of p and q is exactly 0.6
OverlapThreeFifths(p, q) ==
    5 * Cardinality(Segments(p) \cap Segments(q))
        = 3 * Cardinality(Segments(p) \cup Segments(q))

Last(s) == s[Len(s)]

\* C7: whatever the candidates of the iterations were, no accepted path has
\* a segment that contains a blocklist word (letter case ignored), and no two
\* distinct accepted paths overlap by more than 0.8; the returned features
\* are accepted paths.
C7_AcceptedNeverGenericNorSimilar ==
    /\ \A p \in selected_features : ~HasGenericSegment(p)
    /\ \A p, q \in selected_features : p # q => OverlapAtMostFourFifths(p, q)
    /\ \A i \in DOMAIN all_feature_paths : all_feature_paths[i].path \in selected_features

\* the loop has ended with two accepted paths, after a blocklisted candidate
\* and a candidate too similar to an accepted path were turned down
C7_Witness ==
    /\ pcA = "done"
    /\ Cardinality(selected_features) >= 2
    /\ \E p \in rejected_features : HasGenericSegment(p)
    /\ \E p \in rejected_features :
           /\ ~HasGenericSegment(p)
           /\ \E q \in selected_features : ~OverlapAtMostFourFifths(p, q)

\* what C8 says of one examined candidate e, with the two sets as they were
\* when it was examined
Acceptable(e) ==
    /\ e.path.path \notin e.selected
    /\ e.path.path \notin e.rejected
    /\ e.path.score >= MinRelevance
    /\ ~HasGenericSegment(e.path.path)
    /\ \A q \in e.selected : OverlapAtMostFourFifths(e.path.path, q)

SourceRank(source) ==
    CASE source = "exploit" -> 1 [] source = "explore" -> 2 [] source = "missing" -> 3

\* the paths of the examined candidates that were accepted, in their order
AcceptedOf(log) ==
    LET hits == SelectSeq(log, LAMBDA e : e.verdict = "accepted")
    IN  [i \in DOMAIN hits |-> hits[i].path]

\* C8: the candidates of a call are examined in the order exploit, explore,
\* missing; a candidate is accepted (returned and added to selected) if and
\* only if, when it is examined, its path is in neither set, its score is at
\* least 0.2, no segment contains a blocklist word and its overlap with every
\* selected path is at most 0.8.  So a candidate in neither set, with a score
\* of at least 0.2, without blocklist word, whose overlap is 0.6 with one
\* selected path and at most 0.8 with the others is accepted, and a
\* candidate whose path is already selected is not.
C8_AcceptanceFilter ==
    /\ \A j, k \in DOMAIN examined :
           j < k => SourceRank(examined[j].path.source) <= SourceRank(examined[k].path.source)
    /\ \A k \in DOMAIN examined :
           LET e == examined[k]
           IN  /\ (e.verdict = "accepted") <=> Acceptable(e)
               /\ e.verdict = "accepted" => e.path.path \in selected_features
               /\ (e.verdict # "accepted" /\ e.path.path \notin e.selected)
                      => e.path.path \notin selected_features
               /\ e.path.path \in e.selected => e.verdict # "accepted"
               /\ k < Len(examined) =>
                      examined[k + 1].selected =
                          e.selected \cup (IF Acceptable(e) THEN {e.path.path} ELSE {})
    /\ examined # <<>> =>
           /\ examined[1].selected \cup {p.path : p \in Range(AcceptedOf(examined))}
                  = selected_features
           /\ Last(new_features) = AcceptedOf(examined)

\* one call accepted a candidate whose overlap with a path selected before it
\* is 0.6, and did not accept a later candidate that repeats a selected path
C8_Witness ==
    \E j, k \in DOMAIN examined :
        /\ j < k
        /\ examined[j].verdict = "accepted"
        /\ \E q \in examined[j].selected : OverlapThreeFifths(examined[j].path.path, q)
        /\ examined[k].path.path \in examined[k].selected
        /\ examined[k].verdict = "skipped"
        /\ Len(Last(new_features)) = 2

\* what C9 says of a state
DisjointAndNeverAgain ==
    /\ selected_features \cap rejected_features = {}
    /\ \A k \in DOMAIN examined :
           LET e == examined[k]
           IN  (e.path.path \in e.selected \/ e.path.path \in e.rejected)
                   => /\ e.verdict = "skipped"
                      /\ (e.path.path \in e.selected) = (e.path.path \in selected_features)
                      /\ (e.path.path \in e.rejected) = (e.path.path \in rejected_features)
    /\ \A i, j \in DOMAIN all_feature_paths :
           i # j => all_feature_paths[i].path # all_feature_paths[j].path
    /\ \A k \in DOMAIN new_features : \A i, j \in DOMAIN new_features[k] :
           i # j => new_features[k][i].path # new_features[k][j].path
    /\ \A k, l \in DOMAIN new_features : \A i \in DOMAIN new_features[k] :
           \A j \in DOMAIN new_features[l] :
               k # l => new_features[k][i].path # new_features[l][j].path

\* what C9 says of a step
OnlyGrow ==
    /\ selected_features \subseteq selected_features'
    /\ rejected_features \subseteq rejected_features'

\* C9: selected and rejected are always disjoint, no step takes a path out
\* of either, and a candidate whose path is in one of them is skipped: it
\* stays where it is and is not returned as accepted, so that no path is
\* returned as newly accepted twice, in one iteration or in two.
C9_DisjointGrowingNeverAgain ==
    [] DisjointAndNeverAgain /\ [][OnlyGrow]_vars

\* in a second iteration a candidate rejected by the first and a candidate
\* selected by the first were both supplied again and skipped
C9_Witness ==
    /\ Len(new_features) >= 2
    /\ \E j, k \in DOMAIN examined :
           /\ examined[j].path.path \in examined[1].rejected
           /\ examined[j].path.score >= MinRelevance
           /\ examined[j].verdict = "skipped"
           /\ examined[k].path.path \in examined[1].selected
           /\ examined[k].verdict = "skipped"

\* the prefixes of a path that end where a segment ends
Prefixes(p) ==
    {SubSeq(p, 1, k) : k \in {i \in DOMAIN p : i = Len(p) \/ p[i + 1] = "/"}}

\* C10: at most max_iterations iterations run; an iteration that accepts
\* nothing is the last one; what is returned is the list of the features the
\* iterations before it accepted, in their order, and the capability graph
\* has one node for each prefix of each of them and counts them.
C10_StopsAtFirstEmptyIteration ==
    /\ Len(new_features) <= max_iterations
    /\ iteration <= Len(new_features)
    /\ \A i \in DOMAIN new_features : new_features[i] = <<>> => i = Len(new_features)
    /\ (new_features # <<>> /\ Last(new_features) = <<>>) => pcA \in {"build", "done"}
    /\ pcA = "done" =>
           /\ Len(new_features) = max_iterations
                  \/ (new_features # <<>> /\ Last(new_features) = <<>>)
           /\ all_feature_paths = Flatten(new_features)
           /\ {capability_graph.nodes[i].meta.feature_path : i \in DOMAIN capability_graph.nodes}
                  = UNION {Prefixes(all_feature_paths[i].path) : i \in DOMAIN all_feature_paths}
           /\ Len(capability_graph.nodes)
                  = Cardinality(UNION {Prefixes(all_feature_paths[i].path) :
                                          i \in DOMAIN all_feature_paths})
           /\ capability_graph.metadata.total_features = Len(all_feature_paths)

\* the loop stopped before max_iterations, at an iteration that accepted
\* nothing, and returned two features of the iteration before it
C10_Witness ==
    /\ pcA = "done"
    /\ Len(new_features) = 2
    /\ max_iterations > 2
    /\ Last(new_features) = <<>>
    /\ Len(all_feature_paths) = 2
    /\ Len(capability_graph.nodes) > 4

\* C12: in the capability graph built from the accepted feature paths there
\* is exactly one capability node for every prefix of every accepted path,
\* and no two capability nodes have the same feature_path.
C12_OneNodePerPrefix ==
    pcA = "done" =>
        /\ \A i \in DOMAIN all_feature_paths :
               \A q \in Prefixes(all_feature_paths[i].path) :
                   Cardinality({k \in DOMAIN capability_graph.nodes :
                                   /\ capability_graph.nodes[k].kind = "capability"
                                   /\ capability_graph.nodes[k].meta.feature_path = q}) = 1
        /\ \A j, k \in DOMAIN capability_graph.nodes :
               capability_graph.nodes[j].meta.feature_path
                   = capability_graph.nodes[k].meta.feature_path => j = k

\* the nodes of a kind in a graph
NodesOfKind(g, kind) == {g.nodes[k] : k \in {j \in DOMAIN g.nodes : g.nodes[j].kind = kind}}

\* the feature_paths of the capability nodes of a graph
CapabilityPaths(g) == {n.meta.feature_path : n \in NodesOfKind(g, "capability")}

\* C13: in the RPG Stage B returns, whatever the LLM answered to the
\* folder-skeleton and file-assignment prompts, every feature path in a file
\* node's meta.features is the feature_path of a capability node of that RPG.
C13_FileFeaturesAreCapabilityPaths ==
    pcB = "done" =>
        \A n \in NodesOfKind(graph, "file") :
            Range(n.meta.features) \subseteq CapabilityPaths(graph)

\* the ids of the nodes of a graph
IdsOf(g) == {g.nodes[k].id : k \in DOMAIN g.nodes}

\* both ends of every edge are ids of nodes of the graph, and no two nodes
\* of the graph have one id
EdgesResolveAndIdsUnique(g) ==
    /\ \A k \in DOMAIN g.edges : g.edges[k].from \in IdsOf(g) /\ g.edges[k].to \in IdsOf(g)
    /\ \A j, k \in DOMAIN g.nodes : g.nodes[j].id = g.nodes[k].id => j = k

\* the graph has an edge with that note
HasEdgeNoted(g, note) == \E k \in DOMAIN g.edges : g.edges[k].note = note

\* C14: in the RPG Stage A returns and in the RPG Stage B returns (and in the
\* graphs Stage B builds on the way), both ends of every edge are ids of
\* nodes of the same RPG and no two nodes have the same id.
C14_EdgesResolveAndIdsUnique ==
    /\ pcA = "done" => EdgesResolveAndIdsUnique(capability_graph)
    /\ pcB \in {"interfaces", "data_flow", "interface_nodes", "done"} =>
           EdgesResolveAndIdsUnique(graph)

\* C14 witness: Stage B has returned a graph with capability, folder, file,
\* class and function nodes (two files among them) and with every kind of
\* edge the two stages make.
C14_Witness ==
    /\ pcB = "done"
    /\ \A kind \in Kinds : NodesOfKind(graph, kind) # {}
    /\ Cardinality(NodesOfKind(graph, "file")) = 2
    /\ \A note \in {"hierarchical containment", "logical dependency",
                      "capability maps to folder", "folder containment",
                      "capability implemented in file", "file containment"} :
           HasEdgeNoted(graph, note)

\* no node of the graph reaches itself along data_flow and order edges
NoFlowOrOrderCycle(g) ==
    \A p \in TransitiveClosure(FlowOrOrder(g)) : p[1] # p[2]

\* C15: in the RPG Stage A returns and in the RPG Stage B returns (and in the
\* graphs Stage B builds on the way), the edges of type data_flow and order
\* contain no directed cycle.
C15_FlowAndOrderAcyclic ==
    /\ pcA = "done" => NoFlowOrOrderCycle(capability_graph)
    /\ pcB \in {"interfaces", "data_flow", "interface_nodes", "done"} =>
           NoFlowOrOrderCycle(graph)

\* C15 witness: Stage B has returned a graph after _add_data_flow_edges looked
\* at the interfaces of two files, and the graph has dependency edges between
\* capabilities and from files to their classes and functions.
C15_Witness ==
    /\ pcB = "done"
    /\ Len(interfaces) = 2
    /\ graph.metadata.stage = "implementation"
    /\ HasEdgeNoted(graph, "logical dependency")
    /\ HasEdgeNoted(graph, "file containment")

\* the leaf capability nodes of the capability graph, in the order of its nodes
LeafCapabilities ==
    SelectSeq(capability_graph.nodes, LAMBDA n : n.kind = "capability" /\ n.children = <<>>)

\* the invariants of an RPG: edges resolve, ids are unique, data_flow and
\* order edges make no cycle, capability nodes have distinct feature_paths,
\* and a file's features are feature_paths of capability nodes
RPGInvariants(g) ==
    /\ EdgesResolveAndIdsUnique(g)
    /\ NoFlowOrOrderCycle(g)
    /\ \A m, n \in NodesOfKind(g, "capability") :
           m.meta.feature_path = n.meta.feature_path => m = n
    /\ \A n \in NodesOfKind(g, "file") : Range(n.meta.features) \subseteq CapabilityPaths(g)

\* C16: when the LLM's answers are empty, Stage B uses the fallback skeleton
\* (folders src/core, src/algorithms, src/utils, tests) and the fallback
\* assignment (one file src/core/module_<i>.py per leaf capability), and the
\* RPG it returns satisfies the RPG invariants and has at least one file node.
C16_EmptyAnswerFallbackHasFile ==
    (/\ pcB = "done"
     /\ llm_skeleton = LLMResponse(TRUE, "")
     /\ llm_assignment = LLMResponse(TRUE, "")) =>
        /\ [k \in DOMAIN folder_skeleton.folders |-> folder_skeleton.folders[k].name]
               = <<src_core, src_algorithms, src_utils, tests>>
        /\ file_assignments.items
               = [i \in DOMAIN LeafCapabilities |->
                     <<module_path(i - 1), <<LeafCapabilities[i].meta.feature_path>>>>]
        /\ RPGInvariants(graph)
        /\ NodesOfKind(graph, "file") # {}

\* an answer to the folder-skeleton prompt that is a failed call, not JSON
\* (empty text too), not a JSON object, or has a folder without a name
MalformedSkeleton(response) ==
    \/ ~response.success
    \/ json_loads[response.content].raises
    \/ json_loads[response.content].value.type # "dict"
    \/ \E k \in DOMAIN json_loads[response.content].value.folders :
           "name" \notin DOMAIN json_loads[response.content].value.folders[k]

\* an answer to the file-assignment prompt that is a failed call, not JSON
\* (empty text too), or not a JSON object
MalformedAssignment(response) ==
    \/ ~response.success
    \/ json_loads[response.content].raises
    \/ json_loads[response.content].value.type # "dict"

\* C17: whatever the LLM answers in Stage B (a failed call, empty text, text
\* that is not JSON, JSON of another shape such as a folder without a name or
\* an assignment that is not a map), Stage B never raises: it goes on with
\* the fallback skeleton or the fallback assignment and returns an RPG.
C17_StageBNeverRaises ==
    /\ pcB # "raised"
    /\ (pcB # "idle" /\ MalformedSkeleton(llm_skeleton)) =>
           folder_skeleton = _create_fallback_skeleton(<<>>)
    /\ (pcB \in {"create_file_nodes", "interfaces", "data_flow", "interface_nodes", "done"}
           /\ MalformedAssignment(llm_assignment)) =>
           file_assignments = _create_fallback_assignment(LeafCapabilities, folder_skeleton)

\* C11: when the proposal stage ends with no accepted feature, the full
\* pipeline reports success = false with the error "no features accepted".
C11_ZeroFeaturesReported ==
    (/\ entry = "run_full_pipeline"
     /\ pcJ = "end"
     /\ pcA = "done"
     /\ all_feature_paths = <<>>) =>
        /\ pipeline_result[1].success = FALSE
        /\ pipeline_result[1].errors = <<"no features accepted">>

\* C18: when a node has exhausted its repair attempts, it is in failed_files
\* and the job ends with status completed, not failed.
C18_ExhaustedNodeJobCompleted ==
    (/\ entry = "run_generation_job"
     /\ pcJ = "end") =>
        \A n \in NodeIds :
            outcome[n] = "exhausted" =>
                /\ get_node(rpg, n).path_hint \in failed_files
                /\ job.status = "completed"

\* C19: for every job whose pipeline ran to its end, also when nodes failed,
\* the final result of the job row is present and contains generated_files,
\* failed_files, test_results and metrics.success_rate.
C19_FinalResultPresent ==
    (/\ entry = "run_generation_job"
     /\ pcJ = "end"
     /\ pc = "done") =>
        /\ job.result # <<>>
        /\ {"generated_files", "failed_files", "test_results", "metrics"}
               \subseteq DOMAIN job.result[1]
        /\ "success_rate" \in DOMAIN job.result[1].metrics

\* C20: for every RPG Stage B can produce, no two distinct class/function
\* nodes write the same file in Stage C: neither the implementation file nor
\* the test file written for one node is written for another.
C20_NodesWriteDisjointFiles ==
    \A m, n \in impl_written :
        m # n =>
            /\ impl_file_path(get_node(rpg, m)) # impl_file_path(get_node(rpg, n))
            /\ get_test_file_path(get_node(rpg, m)) # get_test_file_path(get_node(rpg, n))

\* the nodes of S lie on one directed cycle of data_flow/order edges that
\* stays inside S
FormACycle(g, S) ==
    /\ S # {}
    /\ \A u, v \in S :
          <<u, v>> \in TransitiveClosure(FlowOrOrder(g) \cap (S \X S))

\* C21: for every RPG whose data_flow/order edges contain a directed cycle,
\* validate_dag reports the RPG as invalid and one of its error messages
\* names nodes that form a cycle.
C21_CycleReportedWithItsNodes ==
    (/\ pcG = "validate_dag"
     /\ ~Acyclic(rpg)) =>
        /\ validation.is_valid = FALSE
        /\ \E k \in DOMAIN validation.errors :
              /\ validation.errors[k].message = "Found cycles in graph"
              /\ \E S \in SUBSET validation.errors[k].nodes : FormACycle(rpg, S)

\* a data_flow edge and an order edge make a cycle of two nodes, and
\* validate_dag has reported it
C21_Witness ==
    /\ pcG = "validate_dag"
    /\ rpg.edges = <<Edge("n1", "n2", "data_flow"), Edge("n2", "n1", "order")>>
    /\ validation.is_valid = FALSE
    /\ validation.errors[1].nodes = {"n1", "n2"}

RECURSIVE WithinHops(_, _, _)

\* the ids at most r edges away from `reached` when an edge of any type is
\* walked in either direction
WithinHops(g, reached, r) ==
    IF r = 0
    THEN reached
    ELSE WithinHops(g,
             reached
             \cup {g.edges[i].to : i \in {j \in DOMAIN g.edges : g.edges[j].from \in reached}}
             \cup {g.edges[i].from : i \in {j \in DOMAIN g.edges : g.edges[j].to \in reached}},
             r - 1)

\* C22: get_neighborhood(v, r) returns exactly the nodes of the RPG reachable
\* from v within r hops over the edges of all three types, followed in either
\* direction.
C22_NeighborhoodIsUndirectedBall ==
    (/\ pcG = "get_neighborhood"
     /\ get_node(rpg, query.node_id) # None) =>
        {n.id : n \in neighborhood}
            = {x \in WithinHops(rpg, {query.node_id}, query.radius) :
                  get_node(rpg, x) # None}

\* both ends of every edge of the RPG are nodes of the RPG
EndpointsExist(g) ==
    \A i \in DOMAIN g.edges :
        /\ get_node(g, g.edges[i].from) # None
        /\ get_node(g, g.edges[i].to) # None

\* C28: validate_dag reports an RPG as valid whenever the ends of all its
\* edges exist and its data_flow/order edges have no directed cycle (as every
\* RPG of Stages A and B does).
C28_AcyclicResolvedIsValid ==
    (/\ pcG = "validate_dag"
     /\ EndpointsExist(rpg)
     /\ Acyclic(rpg)) =>
        validation.is_valid = TRUE

\* the nodes and the edges of g with every node id x written as f[x]
Renamed(g, f) ==
    [nodes |-> {[g.nodes[i] EXCEPT !.id = f[g.nodes[i].id],
                                   !.children = {f[c] : c \in Range(g.nodes[i].children)}] :
                   i \in DOMAIN g.nodes},
     edges |-> {[g.edges[i] EXCEPT !.from = f[g.edges[i].from],
                                   !.to = f[g.edges[i].to]] : i \in DOMAIN g.edges},
     metadata |-> g.metadata]

Bijections(S, T) ==
    {f \in [S -> T] : \A x, y \in S : f[x] = f[y] => x = y}

\* a bijection between the node ids of the two graphs maps the nodes of the
\* first onto the nodes of the second, and the edges onto the edges
SameUpToNodeIds(g1, g2) ==
    /\ Len(g1.nodes) = Len(g2.nodes)
    /\ \E f \in Bijections(IdsOf(g1), IdsOf(g2)) :
          Renamed(g1, f) = Renamed(g2, [x \in IdsOf(g2) |-> x])

\* C23: two runs of the pipeline with the same seed, goal and ontology and a
\* deterministic LLM return the same RPG up to a renaming of the node ids.
C23_RunsAgreeUpToNodeIds ==
    (/\ pcV[1] = "done"
     /\ pcV[2] = "done") =>
        SameUpToNodeIds(proposal[1], proposal[2])

\* C25: the queries of the embedding store are read-only: after any calls of
\* search_features and sample_diverse_features the stored features have the
\* path, score and source they were stored with.
C25_QueriesLeaveStoreUnchanged ==
    \A r \in Runs :
        pcV[r] \in {"searched", "sampled", "done"} =>
            stored[r] = build_from_ontology(<<>>, ontology_data)

\* every node and every edge of g1 is a node, resp. an edge, of g2
ContainsGraph(g2, g1) ==
    /\ Range(g1.nodes) \subseteq Range(g2.nodes)
    /\ Range(g1.edges) \subseteq Range(g2.edges)

\* C24: no step of Stage B changes the capability graph Stage A returned
\* (its nodes with their children lists, its edges, its metadata), and the
\* RPG Stage B returns contains every node and every edge of it.
C24_CapabilityGraphKept ==
    /\ [][pcA = "done" => capability_graph' = capability_graph]_vars
    /\ [](pcB = "done" => ContainsGraph(graph, capability_graph))

\* Stage B has returned a graph in which a folder has got a file as a child
\* and a file an interface node, on a capability graph with nodes
C24_Witness ==
    /\ pcB = "done"
    /\ capability_graph.nodes # <<>>
    /\ \E i, j \in DOMAIN graph.nodes :
          /\ graph.nodes[i].kind = "folder" /\ graph.nodes[i].children # <<>>
          /\ graph.nodes[j].kind = "file" /\ graph.nodes[j].children # <<>>

\* C26: when Stage C has ended, for every node recorded as successful the
\* implementation file and the test file on disk hold what the sandbox run
\* that passed for it used: no later node has written over them.
C26_PassedFilesStillOnDisk ==
    pc = "done" =>
        \A n \in NodeIds :
            outcome[n] = "success" =>
                /\ disk[impl_file_path(get_node(rpg, n))] = ImplFile(n, "good")
                /\ disk[get_test_file_path(get_node(rpg, n))] = TestFile(n)

\* C27: in every result of Stage C, no path is both in generated_files and in
\* failed_files.
C27_GeneratedAndFailedDisjoint ==
    pc = "done" =>
        result.generated_files \cap result.failed_files = {}

\* the status and the progress of a job row are well formed
JobRowOk ==
    /\ job.status \in {"pending", "running", "completed", "failed"}
    /\ job.progress \in 0..100
    /\ job.status \in {"completed", "failed"} => job.progress = 100

\* what one step may do to a job row
JobRowStep ==
    /\ job'.status # job.status =>
          \/ job.status = "pending" /\ job'.status = "running"
          \/ job.status = "running" /\ job'.status \in {"completed", "failed"}
    /\ job'.progress >= job.progress

\* C29: the status of a job is pending, running, completed or failed and only
\* goes pending -> running -> completed | failed, a completed or failed job
\* never changing its status; the progress stays within 0..100, never
\* decreases, and is 100 whenever the status is completed or failed.
C29_StatusAndProgressLifecycle ==
    /\ []JobRowOk
    /\ [][JobRowStep]_vars

\* a job that went through running and was completed with progress 100
C29_Witness ==
    /\ entry = "run_generation_job"
    /\ pcJ = "end"
    /\ job.status = "completed"
    /\ job.progress = 100

\* C30: every job whose background task has started eventually has the
\* status completed or failed, when every call of the LLM and of the sandbox
\* returns.
C30_StartedJobEnds ==
    (entry = "run_generation_job")
        ~> (job.status \in {"completed", "failed"})

\* a job that ended as failed through the handler, after Stage B raised
C30_Witness ==
    /\ entry = "run_generation_job"
    /\ pcJ = "end"
    /\ pcB = "raised"
    /\ job.status = "failed"

====
